---- MODULE Spec2Model ----
(***************************************************************************)
(* Model of the Rustastic ChatClient node: the pending-fragment cache      *)
(* (packet_cache.rs), the topology graph (network_structure.rs) and the    *)
(* packet / command handlers of the chat client (chat_client.rs and the    *)
(* chat_client/ modules).                                                  *)
(***************************************************************************)
EXTENDS Integers, Sequences, FiniteSets, TLC

(***************************************************************************)
(* Bounds of the model.                                                    *)
(***************************************************************************)
MaxNode == 4
MaxSession == 1
MaxFragIndex == 0
MaxCounter == 3
MaxPending == 2
MaxServers == 1

Sessions == 0..MaxSession
FragIdx == 0..MaxFragIndex
CacheKeys == Sessions \X FragIdx

(***************************************************************************)
(* Option<T>: None is the empty sequence, Some(v) the one-element one.     *)
(***************************************************************************)
None == << >>
Some(v) == << v >>
IsSome(o) == Len(o) = 1
Unwrap(o) == o[1]

RECURSIVE Reverse(_)
Reverse(s) == IF s = << >> THEN << >> ELSE Append(Reverse(Tail(s)), Head(s))

Contains(s, x) == \E i \in 1..Len(s) : s[i] = x

(***************************************************************************)
(* wg_2024 Packet {routing_header {hop_index, hops}, session_id,           *)
(* pack_type}.  One record shape for the five packet kinds; the fields a   *)
(* kind does not carry hold 0 / << >> / "".  hops is 1-based here, so the  *)
(* Rust hops[i] is hops[i + 1]; hop_index keeps its Rust (0-based) value.  *)
(***************************************************************************)
Packet(kind, hops, hop_index, session_id, fragment_index, total, data, nack_type, nack_node, flood_id, initiator_id, path_trace) ==
    [pack_type |-> kind, hops |-> hops, hop_index |-> hop_index,
     session_id |-> session_id, fragment_index |-> fragment_index,
     total |-> total, data |-> data,
     nack_type |-> nack_type, nack_node |-> nack_node,
     flood_id |-> flood_id, initiator_id |-> initiator_id,
     path_trace |-> path_trace]

MsgFragment(hops, hop_index, session_id, fragment_index, total, data) ==
    Packet("MsgFragment", hops, hop_index, session_id, fragment_index, total, data, "", 0, 0, 0, << >>)

Ack(hops, hop_index, session_id, fragment_index) ==
    Packet("Ack", hops, hop_index, session_id, fragment_index, 0, << >>, "", 0, 0, 0, << >>)

Nack(hops, hop_index, session_id, fragment_index, nack_type, nack_node) ==
    Packet("Nack", hops, hop_index, session_id, fragment_index, 0, << >>, nack_type, nack_node, 0, 0, << >>)

FloodRequest(hops, hop_index, session_id, flood_id, initiator_id, path_trace) ==
    Packet("FloodRequest", hops, hop_index, session_id, 0, 0, << >>, "", 0, flood_id, initiator_id, path_trace)

FloodResponse(hops, hop_index, session_id, flood_id, path_trace) ==
    Packet("FloodResponse", hops, hop_index, session_id, 0, 0, << >>, "", 0, flood_id, 0, path_trace)

NoPacket == Packet("", << >>, 0, 0, 0, 0, << >>, "", 0, 0, 0, << >>)

(***************************************************************************)
(* State.  The fields of ChatClient keep their names: packet_send (the     *)
(* neighbour map; TRUE while the neighbour's receiver is alive),           *)
(* flood_id_received, nodes (network_knowledge.nodes), packet_cache,       *)
(* flood_id_counter, session_id_counter, running, registered, client_list, *)
(* communication_server_list, message_buffer, fragment_buffer (the         *)
(* reassembly buffers of the assembler).                                   *)
(* sent and events are what the last handler put on the neighbour channels *)
(* and on the controller channel, assembled the messages it got from the   *)
(* reassembly; panicked says the thread of run() has unwound; last is the  *)
(* item the last handler was given.  History variables: delivered is the   *)
(* set of (flood_id, initiator) of the FloodRequests handled so far,       *)
(* dropped_nacks the number of Dropped Nacks handled so far for each       *)
(* pending key, excluded the nodes named by the ErrorInRouting Nacks       *)
(* handled since the graph was last learned, acks the number of Acks that  *)
(* ended here so far for each key.  variant names the source of            *)
(* the handlers the node runs: "chat_client.rs", "process_packet"          *)
(* (chat_client/mod.rs with process_packet/ and handle_message/) or        *)
(* "handle_packet" (handle_packet/ and handle_command/).  cache_op and     *)
(* topo_op record the last direct call of SpecCache and SpecTopology.      *)
(* controller_recv and packet_recv are the node's two channels in          *)
(* SpecLoop; net holds the nodes around the initiator of a flood in        *)
(* SpecFlood.                                                              *)
(***************************************************************************)
VARIABLES packet_send, flood_id_received, nodes, packet_cache,
          flood_id_counter, session_id_counter, running, registered,
          client_list, communication_server_list, fragment_buffer,
          message_buffer, sent, events, assembled, panicked, last,
          delivered, dropped_nacks, excluded, acks, variant, cache_op, topo_op,
          controller_recv, packet_recv, handling, pending_at_select, net

nodeFields == << packet_send, flood_id_received, flood_id_counter, session_id_counter,
                 running, registered, client_list, communication_server_list,
                 fragment_buffer, message_buffer, sent, events, assembled, panicked, last >>

\* history variables
history == << delivered, dropped_nacks, excluded, acks >>

\* The two channels the loop of run() receives from, the item it has taken
\* and is handling, and the number of items that were waiting on each
\* channel when it was taken.
loop == << controller_recv, packet_recv, handling, pending_at_select >>

vars == << nodeFields, nodes, packet_cache, history, variant, cache_op, topo_op, loop, net >>

(***************************************************************************)
(* PacketCache (packet_cache.rs): HashMap<(session_id, fragment_index),    *)
(* (Packet, counter)>.  An entry is the pair << packet, counter >>.        *)
(***************************************************************************)
CachePut(cache, key, entry) ==
    [k \in (DOMAIN cache) \cup {key} |-> IF k = key THEN entry ELSE cache[k]]

CacheDel(cache, key) ==
    [k \in (DOMAIN cache) \ {key} |-> cache[k]]

EmptyCache == [k \in {} |-> << >>]

\* PacketCache::insert: a fragment packet is stored with the counter 0,
\* any other packet is refused with an error log.
insert(cache, packet) ==
    IF packet.pack_type = "MsgFragment"
    THEN CachePut(cache, << packet.session_id, packet.fragment_index >>, << packet, 0 >>)
    ELSE cache

\* get that returns the count without storing it
GetLeavesCounter(cache, session_id, fragment_index) == cache

\* PacketCache::get: the entry is stored again with counter + 1 and returned.
get_cache(cache, session_id, fragment_index) ==
    LET key == << session_id, fragment_index >>
    IN  IF key \in DOMAIN cache
        THEN CachePut(cache, key, << cache[key][1], cache[key][2] + 1 >>)
        ELSE cache

get_ret(cache, session_id, fragment_index) ==
    LET key == << session_id, fragment_index >>
    IN  IF key \in DOMAIN cache
        THEN Some(<< cache[key][1], cache[key][2] + 1 >>)
        ELSE None

\* PacketCache::remove
RemoveKeepsEntry(cache, session_id, fragment_index) == cache

remove_cache(cache, session_id, fragment_index) ==
    CacheDel(cache, << session_id, fragment_index >>)

\* remove that reports an entry whatever the key
RemoveAlwaysTrue(cache, session_id, fragment_index) == TRUE

remove_ret(cache, session_id, fragment_index) ==
    << session_id, fragment_index >> \in DOMAIN cache

\* PacketCache::remove_and_get
remove_and_get_cache(cache, session_id, fragment_index) ==
    CacheDel(cache, << session_id, fragment_index >>)

RemoveAndGetAny(cache, session_id, fragment_index) ==
    LET key == << session_id, fragment_index >>
    IN  IF key \in DOMAIN cache THEN Some(cache[key])
        ELSE IF DOMAIN cache # {} THEN Some(cache[CHOOSE k \in DOMAIN cache : TRUE])
        ELSE None

remove_and_get_ret(cache, session_id, fragment_index) ==
    LET key == << session_id, fragment_index >>
    IN  IF key \in DOMAIN cache THEN Some(cache[key]) ELSE None

(***************************************************************************)
(* NetworkTopology (network_structure.rs): nodes maps a known NodeId to    *)
(* its NetworkNode {node_type, neighbors}.                                 *)
(***************************************************************************)
MaxTopoNode == 3
MaxTrace == 3

TopoNodes == 1..MaxTopoNode

EmptyGraph == [n \in {} |-> [node_type |-> "", neighbors |-> {}]]

\* self.nodes.entry(node_id).or_insert_with(..): an existing node is kept as it is.
or_insert(g, node_id, node_type) ==
    IF node_id \in DOMAIN g
    THEN g
    ELSE [n \in (DOMAIN g) \cup {node_id} |->
             IF n = node_id THEN [node_type |-> node_type, neighbors |-> {}] ELSE g[n]]

\* neighbors.insert(x) on the node a, when a is in the map.
OneWayLink(g, a, b) == g

add_neighbor(g, a, b) ==
    IF a \in DOMAIN g
    THEN [g EXCEPT ![a].neighbors = @ \cup {b}]
    ELSE g

\* The body of the loop of process_path_trace for the (1-based) position i.
trace_step(g, path_trace, i) ==
    LET node_id == path_trace[i][1]
        g1 == or_insert(g, node_id, path_trace[i][2])
    IN  IF i > 1
        THEN LET prev_id == path_trace[i - 1][1]
             IN  add_neighbor(add_neighbor(g1, node_id, prev_id), prev_id, node_id)
        ELSE g1

RECURSIVE trace_loop(_, _, _)
trace_loop(g, path_trace, i) ==
    IF i > Len(path_trace)
    THEN g
    ELSE trace_loop(trace_step(g, path_trace, i), path_trace, i + 1)

\* process_path_trace that builds the graph of the trace alone
TraceResetsGraph(g, path_trace) == trace_loop(EmptyGraph, path_trace, 1)

\* NetworkTopology::process_path_trace
process_path_trace(g, path_trace) == trace_loop(g, path_trace, 1)

(***************************************************************************)
(* The iteration order of a HashSet is unspecified: the order in which a   *)
(* node's neighbours are visited is an input, a permutation of the node    *)
(* ids; neighbours are visited in the order they have in it.               *)
(***************************************************************************)
RECURSIVE InOrder(_, _)
InOrder(order, set) ==
    IF order = << >> THEN << >>
    ELSE IF Head(order) \in set
         THEN << Head(order) >> \o InOrder(Tail(order), set)
         ELSE InOrder(Tail(order), set)

Ascending(n) == [i \in 1..n |-> i]
Descending(n) == [i \in 1..n |-> n + 1 - i]
IterOrders(n) == { Ascending(n), Descending(n) }

\* NetworkTopology::dfs: the paths pushed by the call, in push order, and
\* the visited set as the call leaves it.  current_path is pushed and popped
\* around each recursive call, so the call gets the path with the neighbour
\* appended and the loop goes on with the path it had.
RECURSIVE dfs(_, _, _, _, _, _)
RECURSIVE dfs_loop(_, _, _, _, _, _)

\* dfs without the visited.remove(&current) on return
DfsKeepsVisited(g, current, destination, visited, current_path, order) ==
    IF current = destination
    THEN [paths |-> << current_path >>, visited |-> visited]
    ELSE IF current \in DOMAIN g
         THEN dfs_loop(g, InOrder(order, g[current].neighbors), destination,
                       visited \cup {current}, current_path, order)
         ELSE [paths |-> << >>, visited |-> visited \cup {current}]

dfs(g, current, destination, visited, current_path, order) ==
    IF current = destination
    THEN [paths |-> << current_path >>, visited |-> visited]
    ELSE LET inserted == visited \cup {current}
             looped == IF current \in DOMAIN g
                       THEN dfs_loop(g, InOrder(order, g[current].neighbors), destination,
                                     inserted, current_path, order)
                       ELSE [paths |-> << >>, visited |-> inserted]
         IN  [paths |-> looped.paths, visited |-> looped.visited \ {current}]

\* the loop of dfs over the neighbours still to visit
dfs_loop(g, todo, destination, visited, current_path, order) ==
    IF todo = << >>
    THEN [paths |-> << >>, visited |-> visited]
    ELSE LET neighbor == Head(todo)
             here == IF neighbor \notin visited
                     THEN dfs(g, neighbor, destination, visited,
                              Append(current_path, neighbor), order)
                     ELSE [paths |-> << >>, visited |-> visited]
             rest == dfs_loop(g, Tail(todo), destination, here.visited, current_path, order)
         IN  [paths |-> here.paths \o rest.paths, visited |-> rest.visited]

\* NetworkTopology::find_paths_to
find_paths_to(g, current_id, destination_id, order) ==
    dfs(g, current_id, destination_id, {}, << current_id >>, order).paths

\* the local visited of find_paths_to when dfs has returned
visited_after(g, current_id, destination_id, order) ==
    dfs(g, current_id, destination_id, {}, << current_id >>, order).visited

(***************************************************************************)
(* The node.  A handler is a function of the record of the node's fields   *)
(* (State) to the record after it; a step of the model is one whole        *)
(* handler.  A panic (an unwrap of None, an index out of bounds) sets      *)
(* panicked and ends the handler where it is.                              *)
(***************************************************************************)
Self == 1

State ==
    [packet_send |-> packet_send, flood_id_received |-> flood_id_received,
     nodes |-> nodes, packet_cache |-> packet_cache,
     flood_id_counter |-> flood_id_counter, session_id_counter |-> session_id_counter,
     running |-> running, registered |-> registered, client_list |-> client_list,
     communication_server_list |-> communication_server_list,
     fragment_buffer |-> fragment_buffer, message_buffer |-> message_buffer,
     sent |-> << >>, events |-> << >>, assembled |-> << >>,
     panicked |-> panicked, variant |-> variant, id |-> Self]

Commit(st, item) ==
    /\ packet_send' = st.packet_send
    /\ flood_id_received' = st.flood_id_received
    /\ nodes' = st.nodes
    /\ packet_cache' = st.packet_cache
    /\ flood_id_counter' = st.flood_id_counter
    /\ session_id_counter' = st.session_id_counter
    /\ running' = st.running
    /\ registered' = st.registered
    /\ client_list' = st.client_list
    /\ communication_server_list' = st.communication_server_list
    /\ fragment_buffer' = st.fragment_buffer
    /\ message_buffer' = st.message_buffer
    /\ sent' = st.sent
    /\ events' = st.events
    /\ assembled' = st.assembled
    /\ panicked' = st.panicked
    /\ last' = item

panic(st) == [st EXCEPT !.panicked = TRUE]

\* Sender::send on the channel of a neighbour in the map: Ok while the
\* receiver is alive, Err once it is gone.
send_ok(st, to) == st.packet_send[to]

channel_send(st, to, packet) ==
    [st EXCEPT !.sent = Append(@, [to |-> to, packet |-> packet])]

\* self.controller_send.send(event).unwrap()
Event(name, packet, node) == [event |-> name, packet |-> packet, node |-> node]

\* The event that hands a packet to the controller: DroneEvent::PacketDropped
\* in chat_client.rs, ChatClientEvent::ControllerShortcut in chat_client/.
Shortcut(st, packet) ==
    Event(IF st.variant = "chat_client.rs" THEN "PacketDropped" ELSE "ControllerShortcut",
          packet, 0)

controller_send(st, event) == [st EXCEPT !.events = Append(@, event)]

NeighborSeq(st) == InOrder(Ascending(MaxNode), DOMAIN st.packet_send)

(***************************************************************************)
(* chat_client.rs: the single-file client.                                 *)
(***************************************************************************)

\* ChatClient::forward_packet (chat_client.rs)
forward_packet(st, packet) ==
    IF st.panicked THEN st
    ELSE IF packet.hop_index >= Len(packet.hops) THEN panic(st)
    ELSE LET destination == packet.hops[packet.hop_index + 1]
         IN  IF destination \in DOMAIN st.packet_send
             THEN IF send_ok(st, destination)
                  THEN channel_send(st, destination, packet)
                  ELSE controller_send(st, Shortcut(st, packet))
             ELSE IF packet.pack_type = "MsgFragment"
                  THEN st
                  ELSE controller_send(st, Shortcut(st, packet))

\* ChatClient::send_nack (chat_client.rs).  reverse() turns hop_index h into
\* len - h - 1, and next_hop() of the reversed header is the hop before h.
send_nack(st, packet, fragment, nack_type, nack_node) ==
    IF st.panicked THEN st
    ELSE IF packet.hop_index >= Len(packet.hops) \/ packet.hop_index = 0 THEN panic(st)
    ELSE LET prev_hop == packet.hops[packet.hop_index]
             nack == Nack(Reverse(packet.hops), Len(packet.hops) - packet.hop_index - 1,
                          packet.session_id,
                          IF IsSome(fragment) THEN Unwrap(fragment) ELSE 0,
                          IF IsSome(fragment) THEN "Dropped" ELSE nack_type,
                          IF IsSome(fragment) THEN 0 ELSE nack_node)
         IN  IF prev_hop \in DOMAIN st.packet_send /\ send_ok(st, prev_hop)
             THEN channel_send(st, prev_hop, nack)
             ELSE controller_send(st, Shortcut(st, nack))

\* ChatClient::send_flood_response (chat_client.rs)
send_flood_response(st, dest_node, response) ==
    IF dest_node \in DOMAIN st.packet_send /\ send_ok(st, dest_node)
    THEN channel_send(st, dest_node, response)
    ELSE controller_send(st, Shortcut(st, response))

\* ChatClient::send_flood_request (chat_client.rs): a failed send is only logged.
send_flood_request(st, dest_node, request) ==
    IF send_ok(st, dest_node) THEN channel_send(st, dest_node, request) ELSE st

RECURSIVE flood_to(_, _, _)
flood_to(st, targets, request) ==
    IF targets = << >> THEN st
    ELSE flood_to(send_flood_request(st, Head(targets), request), Tail(targets), request)

TraceIds(path_trace) == [i \in 1..Len(path_trace) |-> path_trace[i][1]]

\* handle_flood_request without the look-up in flood_id_received
FloodAlwaysForwards(st, packet) ==
    IF packet.path_trace = << >> THEN st
    ELSE LET prev_node == packet.path_trace[Len(packet.path_trace)][1]
             path_trace == Append(packet.path_trace, << st.id, "Client" >>)
             targets == SelectSeq(NeighborSeq(st), LAMBDA n : n # prev_node)
         IN  flood_to(st, targets,
                      FloodRequest(packet.hops, packet.hop_index, packet.session_id,
                                   packet.flood_id, packet.initiator_id, path_trace))

\* handle_flood_request forwarding the trace as it was received
FloodForwardsUnchanged(st, packet) ==
    IF packet.path_trace = << >> THEN st
    ELSE LET prev_node == packet.path_trace[Len(packet.path_trace)][1]
             targets == SelectSeq(NeighborSeq(st), LAMBDA n : n # prev_node)
         IN  flood_to(st, targets, packet)

\* ChatClient::handle_flood_request (chat_client.rs)
handle_flood_request(st, packet) ==
    IF packet.path_trace = << >> THEN st
    ELSE LET prev_node == packet.path_trace[Len(packet.path_trace)][1]
             path_trace == Append(packet.path_trace, << st.id, "Client" >>)
             response == FloodResponse(Reverse(TraceIds(path_trace)), 1, packet.session_id,
                                       packet.flood_id, path_trace)
             targets == SelectSeq(NeighborSeq(st), LAMBDA n : n # prev_node)
         IN  IF << packet.flood_id, packet.initiator_id >> \in st.flood_id_received
             THEN send_flood_response(st, prev_node, response)
             ELSE IF Cardinality(DOMAIN st.packet_send) = 1
                  THEN send_flood_response(st, prev_node, response)
                  ELSE flood_to(st, targets,
                           FloodRequest(packet.hops, packet.hop_index, packet.session_id,
                                        packet.flood_id, packet.initiator_id, path_trace))

\* start_flooding that leaves flood_id_counter as it is
FloodReusesId(st) ==
    LET request == FloodRequest(<< >>, 0, st.session_id_counter + 1, st.flood_id_counter,
                                st.id, << << st.id, "Client" >> >>)
        st1 == [st EXCEPT !.session_id_counter = @ + 1]
    IN  flood_to(st1, NeighborSeq(st1), request)

\* ChatClient::start_flooding (chat_client.rs)
start_flooding(st) ==
    LET request == FloodRequest(<< >>, 0, st.session_id_counter + 1, st.flood_id_counter,
                                st.id, << << st.id, "Client" >> >>)
        st1 == [st EXCEPT !.flood_id_counter = @ + 1, !.session_id_counter = @ + 1]
    IN  flood_to(st1, NeighborSeq(st1), request)

\* ChatClient::handle_flood_response (chat_client.rs): a response in transit.
handle_flood_response(st, packet) ==
    LET next == packet.hops[packet.hop_index + 1]
    IN  IF next \in DOMAIN st.packet_send /\ send_ok(st, next)
        THEN channel_send(st, next, packet)
        ELSE controller_send(st, Shortcut(st, packet))

\* NetworkTopology::clear, which network_structure.rs does not hold: the
\* graph is emptied.
clear(g) == EmptyGraph

\* ChatClient::process_flood_response (chat_client.rs)
process_flood_response(st, packet) ==
    [st EXCEPT !.nodes = process_path_trace(@, packet.path_trace)]

\* ChatClient::process_ack (chat_client.rs)
process_ack(st, packet) ==
    [st EXCEPT !.packet_cache = remove_cache(@, packet.session_id, packet.fragment_index)]

(***************************************************************************)
(* Messages and the assembler.  The Assembler of assembler.rs holds only   *)
(* its constructor; fragmentation and reassembly are modelled as the       *)
(* design describes them.  A Message {session_id, source_id,               *)
(* destination_id, content} is serialized to source, destination, the side *)
(* of the content (1 from a server, 0 from a client), the code of its tag  *)
(* and its arguments; the session_id travels in the packet.                *)
(***************************************************************************)
FragSize == 4

Tags == << "ServerType", "ClientList", "MessageReceived", "UnreachableClient",
           "SuccessfulRegistration", "SuccessfullLogOut", "Other",
           "GetServerType", "GetClientList", "RegisterToChat", "Logout", "SendMessage" >>

TagCode(tag) == CHOOSE i \in 1..Len(Tags) : Tags[i] = tag

Message(session_id, source_id, destination_id, from_server, tag, args) ==
    [session_id |-> session_id, source_id |-> source_id,
     destination_id |-> destination_id, from_server |-> from_server,
     tag |-> tag, args |-> args]

Serialize(m) ==
    << m.source_id, m.destination_id, IF m.from_server THEN 1 ELSE 0, TagCode(m.tag) >>
    \o m.args

Deserialize(bytes, session_id) ==
    Message(session_id, bytes[1], bytes[2], bytes[3] = 1, Tags[bytes[4]],
            SubSeq(bytes, 5, Len(bytes)))

NFragments(bytes) == (Len(bytes) + FragSize - 1) \div FragSize

Chunk(bytes, i) ==
    SubSeq(bytes, i * FragSize + 1,
           IF (i + 1) * FragSize < Len(bytes) THEN (i + 1) * FragSize ELSE Len(bytes))

\* fragment(message): the fragment packets 0..N-1 of the serialized message.
fragment_message(m, hops, hop_index) ==
    LET bytes == Serialize(m)
    IN  [i \in 1..NFragments(bytes) |->
            MsgFragment(hops, hop_index, m.session_id, i - 1, NFragments(bytes),
                        Chunk(bytes, i - 1))]

EmptyBuffers == [k \in {} |-> [i \in {} |-> << >>]]

RECURSIVE Concat(_, _, _)
Concat(frags, i, total) ==
    IF i >= total THEN << >> ELSE frags[i] \o Concat(frags, i + 1, total)

\* on_fragment_received: the buffer (session_id, source) after the fragment,
\* gone once every index 0..total-1 is in it ...
buffer_after(fb, packet, source) ==
    LET key == << packet.session_id, source >>
        cur == IF key \in DOMAIN fb THEN fb[key] ELSE [i \in {} |-> << >>]
        new == [i \in (DOMAIN cur) \cup {packet.fragment_index} |->
                   IF i = packet.fragment_index THEN packet.data ELSE cur[i]]
    IN  IF \A i \in 0..(packet.total - 1) : i \in DOMAIN new
        THEN [k \in (DOMAIN fb) \ {key} |-> fb[k]]
        ELSE [k \in (DOMAIN fb) \cup {key} |-> IF k = key THEN new ELSE fb[k]]

\* ... and the Message it returns then.
received_fragment(fb, packet, source) ==
    LET key == << packet.session_id, source >>
        cur == IF key \in DOMAIN fb THEN fb[key] ELSE [i \in {} |-> << >>]
        new == [i \in (DOMAIN cur) \cup {packet.fragment_index} |->
                   IF i = packet.fragment_index THEN packet.data ELSE cur[i]]
    IN  IF \A i \in 0..(packet.total - 1) : i \in DOMAIN new
        THEN Some(Deserialize(Concat(new, 0, packet.total), packet.session_id))
        ELSE None

\* ServerType::Chat, the argument of a ServerType message
Chat == 1

\* a read_message that takes every message as its own
ReadAnyDestination(st) ==
    IF st.message_buffer = << >> THEN st
    ELSE LET message == st.message_buffer[Len(st.message_buffer)]
             st1 == [st EXCEPT !.message_buffer = SubSeq(@, 1, Len(@) - 1)]
         IN  CASE message.tag = "SuccessfulRegistration" ->
                     controller_send([st1 EXCEPT !.registered = Some(message.source_id)],
                                     Event("SuccessfulRegistration", NoPacket, message.source_id))
               [] message.tag = "SuccessfullLogOut" ->
                     controller_send([st1 EXCEPT !.registered = None],
                                     Event("SuccessfulLogOut", NoPacket, 0))
               [] OTHER -> st1

\* ChatClient::read_message (chat_client.rs)
read_message(st) ==
    IF st.message_buffer = << >> THEN st
    ELSE LET message == st.message_buffer[Len(st.message_buffer)]
             st1 == [st EXCEPT !.message_buffer = SubSeq(@, 1, Len(@) - 1)]
         IN  IF message.destination_id # Self THEN st1
             ELSE IF ~message.from_server THEN st1
             ELSE CASE message.tag = "ServerType" ->
                         IF message.args = << Chat >>
                         THEN [st1 EXCEPT !.communication_server_list = Append(@, message.source_id)]
                         ELSE st1
                    [] message.tag = "ClientList" ->
                         controller_send([st1 EXCEPT !.client_list = message.args],
                                         Event("ClientList", NoPacket, 0))
                    [] message.tag = "MessageReceived" ->
                         controller_send(st1, Event("MessageReceived", NoPacket, message.args[1]))
                    [] message.tag = "UnreachableClient" ->
                         controller_send(
                             [st1 EXCEPT !.client_list =
                                  SelectSeq(@, LAMBDA c : c # message.args[1])],
                             Event("Unreachable", NoPacket, message.args[1]))
                    [] message.tag = "SuccessfulRegistration" ->
                         controller_send([st1 EXCEPT !.registered = Some(message.source_id)],
                                         Event("SuccessfulRegistration", NoPacket, message.source_id))
                    [] message.tag = "SuccessfullLogOut" ->
                         controller_send([st1 EXCEPT !.registered = None],
                                         Event("SuccessfulLogOut", NoPacket, 0))
                    [] OTHER -> st1

\* A delivery that keys the reassembly buffers by the session alone.
DeliverKeyedBySession(st, packet) ==
    LET message == received_fragment(st.fragment_buffer, packet, 0)
        st1 == [st EXCEPT !.fragment_buffer = buffer_after(@, packet, 0)]
    IN  IF st.panicked THEN st
        ELSE IF IsSome(message)
             THEN read_message([st1 EXCEPT !.message_buffer = Append(@, Unwrap(message)),
                                           !.assembled = Append(@, Unwrap(message))])
             ELSE st1

\* The tail of the three process_fragment: the fragment goes to the
\* reassembly buffers, a completed message to message_buffer and read_message.
deliver_fragment(st, packet) ==
    LET source_id == packet.hops[1]
        message == received_fragment(st.fragment_buffer, packet, source_id)
        st1 == [st EXCEPT !.fragment_buffer = buffer_after(@, packet, source_id)]
    IN  IF st.panicked THEN st
        ELSE IF IsSome(message)
             THEN read_message([st1 EXCEPT !.message_buffer = Append(@, Unwrap(message)),
                                           !.assembled = Append(@, Unwrap(message))])
             ELSE st1

\* ChatClient::process_fragment (chat_client.rs).  handle_packet has moved
\* hop_index to hops.len() before the call, so get_reversed() computes
\* len - hop_index - 1 below zero.
process_fragment_ack(st, packet) ==
    Ack(Reverse(packet.hops), Len(packet.hops) - packet.hop_index - 1,
        st.session_id_counter, packet.fragment_index)

process_fragment(st, packet) ==
    IF Len(packet.hops) - packet.hop_index - 1 < 0 THEN panic(st)
    ELSE deliver_fragment(forward_packet(st, process_fragment_ack(st, packet)),
                           packet)

Last(seq) == seq[Len(seq)]

\* The ErrorInRouting and UnexpectedRecipient arms of ChatClient::process_nack
\* (chat_client.rs): the first path without the named node, else clear,
\* start_flooding and new_paths[0].
reroute_excluding(st, packet, unreachable_node, order) ==
    LET got == remove_and_get_ret(st.packet_cache, packet.session_id, packet.fragment_index)
        st1 == [st EXCEPT !.packet_cache =
                    remove_and_get_cache(@, packet.session_id, packet.fragment_index)]
    IN  IF ~IsSome(got) THEN st1
        ELSE LET incorrect_packet == Unwrap(got)[1]
             IN  IF incorrect_packet.hops = << >> THEN panic(st1)
                 ELSE LET dest == Last(incorrect_packet.hops)
                          paths_to_dest == find_paths_to(st1.nodes, Self, dest, order)
                          usable == SelectSeq(paths_to_dest, LAMBDA path : ~Contains(path, unreachable_node))
                      IN  IF usable # << >>
                          THEN LET new_packet == [incorrect_packet EXCEPT
                                                     !.hops = usable[1], !.hop_index = 0]
                               IN  forward_packet(
                                       [st1 EXCEPT !.packet_cache = insert(@, new_packet)],
                                       new_packet)
                          ELSE LET st2 == start_flooding([st1 EXCEPT !.nodes = clear(@)])
                                   new_paths == find_paths_to(st2.nodes, Self, dest, order)
                               IN  IF new_paths = << >> THEN panic(st2)
                                   ELSE LET new_packet == [incorrect_packet EXCEPT
                                                !.hops = new_paths[1], !.hop_index = 0]
                                        IN  forward_packet(
                                                [st2 EXCEPT !.packet_cache = insert(@, new_packet)],
                                                new_packet)

LowThreshold == 3

\* The Dropped arm of ChatClient::process_nack (chat_client.rs); random is
\* the draw of rand::thread_rng().
resend_dropped(st, packet, order, random) ==
    LET got == remove_and_get_ret(st.packet_cache, packet.session_id, packet.fragment_index)
        st1 == [st EXCEPT !.packet_cache =
                    remove_and_get_cache(@, packet.session_id, packet.fragment_index)]
    IN  IF ~IsSome(got) THEN st1
        ELSE LET dropped_packet == Unwrap(got)[1]
                 drop_counter == Unwrap(got)[2]
             IN  IF drop_counter >= LowThreshold
                 THEN IF dropped_packet.hops = << >> THEN panic(st1)
                      ELSE LET dest == Last(dropped_packet.hops)
                               paths_to_dest == find_paths_to(st1.nodes, Self, dest, order)
                           IN  IF paths_to_dest = << >> THEN panic(st1)
                               ELSE LET alt_path == paths_to_dest[(random % Len(paths_to_dest)) + 1]
                                        packet_to_resend == [dropped_packet EXCEPT
                                                                !.hops = alt_path, !.hop_index = 0]
                                    IN  forward_packet(
                                            [st1 EXCEPT !.packet_cache = insert(@, packet_to_resend)],
                                            packet_to_resend)
                 ELSE forward_packet(
                          [st1 EXCEPT !.packet_cache = insert(@, dropped_packet)],
                          dropped_packet)

\* ChatClient::process_nack (chat_client.rs)
process_nack(st, packet, order, random) ==
    CASE packet.nack_type = "ErrorInRouting" -> reroute_excluding(st, packet, packet.nack_node, order)
      [] packet.nack_type = "DestinationIsDrone" -> st
      [] packet.nack_type = "Dropped" -> resend_dropped(st, packet, order, random)
      [] packet.nack_type = "UnexpectedRecipient" -> reroute_excluding(st, packet, packet.nack_node, order)

\* ChatClient::handle_ack_nack (chat_client.rs): a Nack in transit is
\* answered with a Dropped Nack, an Ack is forwarded.
handle_ack_nack(st, packet) ==
    IF packet.pack_type = "Nack"
    THEN send_nack(st, packet, None, "Dropped", 0)
    ELSE forward_packet(st, packet)

\* ChatClient::handle_packet (chat_client.rs)
handle_packet(st, packet_in, order, random) ==
    IF packet_in.pack_type = "FloodRequest"
    THEN [handle_flood_request(st, packet_in) EXCEPT
             !.flood_id_received = @ \cup {<< packet_in.flood_id, packet_in.initiator_id >>}]
    ELSE IF packet_in.hop_index >= Len(packet_in.hops) THEN panic(st)
    ELSE IF packet_in.hops[packet_in.hop_index + 1] # Self
    THEN send_nack(st, packet_in, None, "UnexpectedRecipient", Self)
    ELSE LET packet == [packet_in EXCEPT !.hop_index = @ + 1]
         IN  IF packet.hop_index = Len(packet.hops)
             THEN CASE packet.pack_type = "MsgFragment" -> process_fragment(st, packet)
                    [] packet.pack_type = "Ack" -> process_ack(st, packet)
                    [] packet.pack_type = "Nack" -> process_nack(st, packet, order, random)
                    [] packet.pack_type = "FloodResponse" -> process_flood_response(st, packet)
             ELSE IF packet.hops[packet.hop_index + 1] \notin DOMAIN st.packet_send
                  THEN send_nack(st, packet, None, "ErrorInRouting", Self)
                  ELSE CASE packet.pack_type \in {"Nack", "Ack"} -> handle_ack_nack(st, packet)
                         [] packet.pack_type = "MsgFragment" -> forward_packet(st, packet)
                         [] packet.pack_type = "FloodResponse" -> handle_flood_response(st, packet)

\* network_knowledge.server_list, which network_structure.rs does not hold:
\* the known nodes of type Server.
server_list(g) == InOrder(Ascending(MaxNode), { n \in DOMAIN g : g[n].node_type = "Server" })

\* The sending tail shared by send_message_to, query_communication_servers,
\* get_client_list, register_to and logout (chat_client.rs):
\* find_paths_to(..)[0], then insert and forward_packet for each fragment.
RECURSIVE send_fragments(_, _)
send_fragments(st, fragments) ==
    IF fragments = << >> THEN st
    ELSE send_fragments(
             forward_packet([st EXCEPT !.packet_cache = insert(@, Head(fragments))],
                            Head(fragments)),
             Tail(fragments))

send_to_first_path(st, message, order) ==
    LET paths == find_paths_to(st.nodes, Self, message.destination_id, order)
    IN  IF paths = << >> THEN panic(st)
        ELSE send_fragments(st, fragment_message(message, paths[1], 1))

\* ChatClient::query_communication_servers (chat_client.rs)
RECURSIVE query_servers(_, _, _)
query_servers(st, servers, order) ==
    IF servers = << >> \/ st.panicked THEN st
    ELSE LET session_id == st.session_id_counter
             st1 == [st EXCEPT !.session_id_counter = @ + 1]
             query == Message(session_id, Self, Head(servers), FALSE, "GetServerType", << >>)
         IN  query_servers(send_to_first_path(st1, query, order), Tail(servers), order)

query_communication_servers(st, order) == query_servers(st, server_list(st.nodes), order)

\* ChatClient::get_client_list (chat_client.rs)
get_client_list(st, order) ==
    IF st.running /\ IsSome(st.registered)
    THEN LET session_id == st.session_id_counter
             st1 == [st EXCEPT !.session_id_counter = @ + 1]
         IN  send_to_first_path(st1,
                 Message(session_id, Self, Unwrap(st.registered), FALSE, "GetClientList", << >>),
                 order)
    ELSE st

\* ChatClient::register_to (chat_client.rs)
register_to(st, server_id, order) ==
    IF st.running /\ Contains(st.communication_server_list, server_id)
    THEN LET session_id == st.session_id_counter
             st1 == [st EXCEPT !.session_id_counter = @ + 1]
         IN  send_to_first_path(st1,
                 Message(session_id, Self, server_id, FALSE, "RegisterToChat", << >>), order)
    ELSE st

\* ChatClient::logout (chat_client.rs).  The function names a server_id it
\* never binds; it is an input here.
logout(st, server_id, order) ==
    IF st.running
    THEN LET session_id == st.session_id_counter
             st1 == [st EXCEPT !.session_id_counter = @ + 1]
         IN  send_to_first_path(st1,
                 Message(session_id, Self, server_id, FALSE, "Logout", << >>), order)
    ELSE st

\* ChatClient::send_message_to (chat_client.rs)
send_message_to(st, message, order) ==
    IF st.running
    THEN LET st1 == get_client_list(st, order)
         IN  IF st1.panicked THEN st1
             ELSE IF Contains(st1.client_list, message.source_id)
                  THEN send_to_first_path(st1, message, order)
                  ELSE st1
    ELSE st

\* ChatClient::handle_command (chat_client.rs)
handle_command(st, command, order) ==
    CASE command.name = "AddSender" ->
            IF command.node \in DOMAIN st.packet_send THEN st
            ELSE [st EXCEPT !.packet_send =
                     [n \in (DOMAIN @) \cup {command.node} |->
                         IF n = command.node THEN TRUE ELSE @[n]]]
      [] command.name = "RemoveSender" ->
            [st EXCEPT !.packet_send = [n \in (DOMAIN @) \ {command.node} |-> @[n]]]
      [] command.name = "InitFlooding" -> start_flooding(st)
      [] command.name = "StartChatClient" ->
            query_communication_servers([st EXCEPT !.running = TRUE], order)
      [] command.name = "SendMessageTo" ->
            LET session_id == st.session_id_counter
                st1 == [st EXCEPT !.session_id_counter = @ + 1]
            IN  IF IsSome(st.registered)
                THEN send_message_to(st1,
                         Message(session_id, Self, Unwrap(st.registered), FALSE, "SendMessage",
                                 << command.node >>), order)
                ELSE controller_send(st1, Event("ErrorNotRegistered", NoPacket, 0))
      [] command.name = "RegisterTo" -> register_to(st, command.node, order)
      [] command.name = "GetClientList" -> get_client_list(st, order)
      [] command.name = "LogOut" -> logout(st, command.node, order)

(***************************************************************************)
(* chat_client/: the client split into modules.  Its graph and its pending *)
(* fragments are held by a Router and a HighLevelMessageFactory that src/  *)
(* does not contain; they are modelled as the design describes them, on    *)
(* the same fields: nodes is the router's graph, packet_cache the pending  *)
(* fragments, fragment_buffer the reassembly buffers.                      *)
(***************************************************************************)

\* router.drone_crashed(n): n and its edges leave the graph.
drone_crashed(g, n) ==
    [m \in (DOMAIN g) \ {n} |-> [g[m] EXCEPT !.neighbors = @ \ {n}]]

\* router.get_source_routing_header(dest): the first path found (used with
\* hop_index 1), Err when there is none.
get_source_routing_header(g, dest, order) ==
    LET paths == find_paths_to(g, Self, dest, order)
    IN  IF paths = << >> THEN None ELSE Some(paths[1])

\* msgfactory.insert_packet: records or overwrites the entry; the counter of
\* an entry that is overwritten is kept.
insert_packet(cache, packet) ==
    LET key == << packet.session_id, packet.fragment_index >>
    IN  IF packet.pack_type # "MsgFragment" THEN cache
        ELSE CachePut(cache, key,
                      << packet, IF key \in DOMAIN cache THEN cache[key][2] ELSE 0 >>)

HighThreshold == 30

\* ChatClient::send_nack (handle_packet/mod.rs)
hp_send_nack(st, packet, fragment, nack_type, nack_node) ==
    IF st.panicked THEN st
    ELSE IF packet.hop_index > Len(packet.hops) THEN panic(st)
    ELSE LET kept == SubSeq(packet.hops, 1, packet.hop_index)
             hops == Reverse(IF nack_type = "UnexpectedRecipient"
                             THEN Append(kept, nack_node) ELSE kept)
         IN  IF Len(hops) < 2 THEN panic(st)
             ELSE LET prev_hop == hops[2]
                      nack == Nack(hops, 1, packet.session_id,
                                   IF IsSome(fragment) THEN Unwrap(fragment) ELSE 0,
                                   nack_type, nack_node)
                  IN  IF prev_hop \in DOMAIN st.packet_send /\ send_ok(st, prev_hop)
                      THEN channel_send(st, prev_hop, nack)
                      ELSE controller_send(st, Shortcut(st, nack))

\* ChatClient::forward_packet (handle_packet/mod.rs)
hp_forward_packet(st, packet) ==
    IF st.panicked THEN st
    ELSE IF packet.hop_index >= Len(packet.hops) THEN panic(st)
    ELSE LET destination == packet.hops[packet.hop_index + 1]
         IN  IF destination \in DOMAIN st.packet_send
             THEN IF send_ok(st, destination)
                  THEN channel_send(st, destination, packet)
                  ELSE controller_send(st, Shortcut(st, packet))
             ELSE IF packet.pack_type = "MsgFragment"
                  THEN hp_send_nack(st, packet, Some(packet.fragment_index),
                                    "ErrorInRouting", destination)
                  ELSE controller_send(st, Shortcut(st, packet))

\* ChatClient::process_fragment (handle_packet/mod.rs)
hp_process_fragment(st, packet) ==
    LET ack_packet == Ack(Reverse(packet.hops), 1, packet.session_id, packet.fragment_index)
        st1 == deliver_fragment(hp_forward_packet(st, ack_packet), packet)
    IN  IF st1.panicked THEN st1
        ELSE [st1 EXCEPT !.packet_cache =
                 remove_and_get_cache(@, packet.session_id, packet.fragment_index)]

\* The resend shared by the arms of process_nack (handle_packet/mod.rs): a new
\* header for the destination of the pending packet, or the stored one.
hp_resend(st, pending, order, keep_on_error) ==
    IF pending.hops = << >> THEN panic(st)
    ELSE LET header == get_source_routing_header(st.nodes, Last(pending.hops), order)
             new_packet == [pending EXCEPT !.hops = Unwrap(header), !.hop_index = 1]
         IN  IF IsSome(header)
             THEN hp_forward_packet([st EXCEPT !.packet_cache = insert_packet(@, new_packet)],
                                    new_packet)
             ELSE IF keep_on_error THEN hp_forward_packet(st, pending) ELSE st

\* process_nack flooding as soon as the low threshold is passed
NackFloodsEarly(st, packet, order) ==
    LET got == get_ret(st.packet_cache, packet.session_id, packet.fragment_index)
        st_got == [st EXCEPT !.packet_cache =
                      get_cache(@, packet.session_id, packet.fragment_index)]
    IN  IF packet.nack_type # "Dropped" \/ ~IsSome(got) THEN st
        ELSE hp_resend(IF Unwrap(got)[2] > LowThreshold
                       THEN start_flooding(st_got) ELSE st_got,
                       Unwrap(got)[1], order, TRUE)

\* ChatClient::process_nack (handle_packet/mod.rs)
hp_process_nack(st, packet, order) ==
    LET s == packet.session_id
        f == packet.fragment_index
        taken == remove_and_get_ret(st.packet_cache, s, f)
        st_taken == [st EXCEPT !.packet_cache = remove_and_get_cache(@, s, f)]
        got == get_ret(st.packet_cache, s, f)
        st_got == [st EXCEPT !.packet_cache = get_cache(@, s, f)]
    IN  CASE packet.nack_type = "ErrorInRouting" ->
                IF ~IsSome(taken) THEN st
                ELSE hp_resend([st_taken EXCEPT !.nodes = drone_crashed(@, packet.nack_node)],
                               Unwrap(taken)[1], order, TRUE)
          [] packet.nack_type = "DestinationIsDrone" -> st
          [] packet.nack_type = "Dropped" ->
                IF ~IsSome(got) THEN st
                ELSE hp_resend(IF Unwrap(got)[2] > HighThreshold
                               THEN start_flooding(st_got) ELSE st_got,
                               Unwrap(got)[1], order, TRUE)
          [] packet.nack_type = "UnexpectedRecipient" ->
                IF ~IsSome(taken) THEN st
                ELSE hp_resend(st_taken, Unwrap(taken)[1], order, FALSE)

\* ChatClient::handle_packet with valid_packet (handle_packet/mod.rs)
hp_handle_packet(st, packet, order) ==
    IF packet.pack_type = "FloodRequest"
    THEN LET path_trace == Append(packet.path_trace, << Self, "Client" >>)
             reversed == Reverse(TraceIds(path_trace))
             hops == IF Last(reversed) # packet.initiator_id
                     THEN Append(reversed, packet.initiator_id) ELSE reversed
         IN  IF Len(hops) >= 2
             THEN send_flood_response(st, hops[2],
                      FloodResponse(hops, 1, packet.session_id, packet.flood_id, path_trace))
             ELSE st
    ELSE IF packet.hop_index >= Len(packet.hops) THEN panic(st)
    ELSE IF packet.hops[packet.hop_index + 1] = Self /\ packet.hop_index = Len(packet.hops) - 1
    THEN CASE packet.pack_type = "MsgFragment" -> hp_process_fragment(st, packet)
           [] packet.pack_type = "Ack" ->
                 [st EXCEPT !.packet_cache =
                     remove_cache(@, packet.session_id, packet.fragment_index)]
           [] packet.pack_type = "Nack" -> hp_process_nack(st, packet, order)
           [] packet.pack_type = "FloodResponse" -> process_flood_response(st, packet)
    ELSE IF packet.pack_type = "MsgFragment"
         THEN hp_send_nack(st, packet, Some(packet.fragment_index), "UnexpectedRecipient", Self)
         ELSE controller_send(st, Shortcut(st, packet))

\* ChatClient::process_fragment (process_packet/mod.rs); forward_packet,
\* send_nack and send_flood_response of chat_client/mod.rs are those of
\* chat_client.rs but for the event they send.
pp_process_fragment(st, packet) ==
    LET ack_packet == Ack(Reverse(packet.hops), Len(packet.hops) - packet.hop_index - 1,
                          packet.session_id, packet.fragment_index)
    IN  deliver_fragment(forward_packet(st, ack_packet), packet)

\* ChatClient::process_nack (process_packet/mod.rs)
pp_process_nack(st, packet, order, random) ==
    LET s == packet.session_id
        f == packet.fragment_index
        taken == remove_and_get_ret(st.packet_cache, s, f)
        st_taken == [st EXCEPT !.packet_cache = remove_and_get_cache(@, s, f)]
        got == get_ret(st.packet_cache, s, f)
        st_got == [st EXCEPT !.packet_cache = get_cache(@, s, f)]
        reroute(st1, pending) ==
            IF pending.hops = << >> THEN panic(st1)
            ELSE LET header == get_source_routing_header(st1.nodes, Last(pending.hops), order)
                     new_packet == [pending EXCEPT !.hops = Unwrap(header), !.hop_index = 1]
                 IN  IF IsSome(header)
                     THEN forward_packet(
                              [st1 EXCEPT !.packet_cache = insert_packet(@, new_packet)],
                              new_packet)
                     ELSE st1
    IN  CASE packet.nack_type = "ErrorInRouting" ->
                IF ~IsSome(taken) THEN st
                ELSE IF Unwrap(taken)[1].hops = << >> THEN panic(st_taken)
                ELSE reroute([st_taken EXCEPT !.nodes = drone_crashed(@, packet.nack_node)],
                             Unwrap(taken)[1])
          [] packet.nack_type = "DestinationIsDrone" -> st
          [] packet.nack_type = "Dropped" ->
                IF ~IsSome(got) THEN st
                ELSE LET dropped_packet == Unwrap(got)[1]
                         routing_headers ==
                             IF dropped_packet.hops = << >> THEN << >>
                             ELSE find_paths_to(st.nodes, Self, Last(dropped_packet.hops), order)
                         packet_to_resend ==
                             IF Unwrap(got)[2] >= LowThreshold
                             THEN [dropped_packet EXCEPT
                                      !.hops = routing_headers[(random % Len(routing_headers)) + 1],
                                      !.hop_index = 1]
                             ELSE dropped_packet
                     IN  IF Unwrap(got)[2] >= LowThreshold /\ routing_headers = << >>
                         THEN panic(st_got)
                         ELSE forward_packet(
                                  [st_got EXCEPT !.packet_cache = insert_packet(@, packet_to_resend)],
                                  packet_to_resend)
          [] packet.nack_type = "UnexpectedRecipient" ->
                IF ~IsSome(taken) THEN st ELSE reroute(st_taken, Unwrap(taken)[1])

\* ChatClient::handle_packet (process_packet/mod.rs).  get_reversed() of a
\* header over a trace of fewer than two nodes subtracts below zero: the
\* thread panics where overflow_checks are on, the index wraps and no hop is
\* found where they are off.
pp_handle_packet(st, packet, order, random, overflow_checks) ==
    LET fragment == IF packet.pack_type = "MsgFragment"
                    THEN Some(packet.fragment_index) ELSE None
        ids == TraceIds(packet.path_trace)
    IN  IF packet.pack_type = "FloodRequest"
        THEN IF Len(ids) < 2
             THEN IF overflow_checks THEN panic(st) ELSE st
             ELSE send_flood_response(st, ids[2],
                      FloodResponse(Reverse(ids), Len(ids) - 2, packet.session_id,
                                    packet.flood_id, packet.path_trace))
        ELSE IF packet.hop_index >= Len(packet.hops) THEN panic(st)
        ELSE IF packet.hops[packet.hop_index + 1] # Self
        THEN send_nack(send_nack(st, packet, None, "UnexpectedRecipient", Self),
                       packet, fragment, "UnexpectedRecipient", Self)
        ELSE IF packet.hop_index # Len(packet.hops) - 1
        THEN send_nack(st, packet, fragment, "UnexpectedRecipient", Self)
        ELSE CASE packet.pack_type = "MsgFragment" -> pp_process_fragment(st, packet)
               [] packet.pack_type = "Ack" ->
                     [st EXCEPT !.packet_cache =
                         remove_cache(@, packet.session_id, packet.fragment_index)]
               [] packet.pack_type = "Nack" -> pp_process_nack(st, packet, order, random)
               [] packet.pack_type = "FloodResponse" -> process_flood_response(st, packet)

\* forward_packet of the module the node is built from
forward(st, packet) ==
    IF st.variant = "handle_packet" THEN hp_forward_packet(st, packet)
    ELSE forward_packet(st, packet)

RECURSIVE insert_and_forward(_, _)
insert_and_forward(st, fragments) ==
    IF fragments = << >> THEN st
    ELSE insert_and_forward(
             forward([st EXCEPT !.packet_cache = insert_packet(@, Head(fragments))],
                     Head(fragments)),
             Tail(fragments))

\* ChatClient::generate_and_send_message (send_message.rs, handle_message/mod.rs);
\* the session of the message is the next one of the factory.
generate_and_send_content(st, tag, args, destination, order) ==
    LET header == get_source_routing_header(st.nodes, destination, order)
        message == Message(st.session_id_counter, Self, destination, FALSE, tag, args)
    IN  IF IsSome(header)
        THEN insert_and_forward([st EXCEPT !.session_id_counter = @ + 1],
                                fragment_message(message, Unwrap(header), 1))
        ELSE st

generate_and_send_message(st, tag, destination, order) ==
    generate_and_send_content(st, tag, << >>, destination, order)

RECURSIVE query_each(_, _, _)
query_each(st, servers, order) ==
    IF servers = << >> THEN st
    ELSE query_each(generate_and_send_message(st, "GetServerType", Head(servers), order),
                    Tail(servers), order)

\* The StartChatClient arm of ChatClient::handle_command (handle_command/mod.rs,
\* chat_client/mod.rs) with query_communication_servers
start_chat_client(st, order) ==
    query_each([st EXCEPT !.running = TRUE], server_list(st.nodes), order)

(***************************************************************************)
(* handle_command of chat_client/handle_command: the commands of the       *)
(* controller.                                                             *)
(***************************************************************************)

\* the AddSender arm: a vacant entry takes the new sender, an occupied one
\* keeps the sender it has
add_sender(st, node_id) ==
    IF node_id \in DOMAIN st.packet_send THEN st
    ELSE [st EXCEPT !.packet_send =
             [n \in (DOMAIN @) \cup {node_id} |-> IF n = node_id THEN TRUE ELSE @[n]]]

\* a RemoveSender that leaves the entry in the map
RemoveKeepsSender(st, node_id) == st

\* the RemoveSender arm
remove_sender(st, node_id) ==
    IF node_id \in DOMAIN st.packet_send
    THEN [st EXCEPT !.packet_send = [n \in (DOMAIN @) \ {node_id} |-> @[n]]]
    ELSE st

\* ChatClient::start_flooding (flooding.rs): the request of the router goes
\* to every neighbour whose channel takes it; a failed send is only logged.
RECURSIVE hp_flood_to(_, _, _)
hp_flood_to(st, neighbors, request) ==
    IF neighbors = << >> THEN st
    ELSE hp_flood_to(IF send_ok(st, Head(neighbors))
                     THEN channel_send(st, Head(neighbors), request) ELSE st,
                     Tail(neighbors), request)

hp_start_flooding(st) ==
    hp_flood_to([st EXCEPT !.flood_id_counter = @ + 1], NeighborSeq(st),
                FloodRequest(<< >>, 0, 0, st.flood_id_counter, st.id,
                             << << st.id, "Client" >> >>))

\* ChatClient::is_running and is_registered (send_message.rs): the state
\* after the check, with the error event when it fails
is_running(st) ==
    IF st.running THEN st ELSE controller_send(st, Event("ErrorNotRunning", NoPacket, 0))

is_registered(st) ==
    IF IsSome(st.registered) THEN st
    ELSE controller_send(st, Event("ErrorNotRegistered", NoPacket, 0))

\* a SendMessageTo that does not look at client_list
SendToAnyClient(st, client_id, order) ==
    IF ~st.running THEN is_running(st)
    ELSE IF ~IsSome(st.registered) THEN is_registered(st)
    ELSE generate_and_send_content(st, "SendMessage", << client_id >>,
                                   Unwrap(st.registered), order)

\* the SendMessageTo arm
send_message_to_client(st, client_id, order) ==
    IF ~st.running THEN is_running(st)
    ELSE IF ~IsSome(st.registered) THEN is_registered(st)
    ELSE IF Contains(st.client_list, client_id)
         THEN generate_and_send_content(st, "SendMessage", << client_id >>,
                                        Unwrap(st.registered), order)
         ELSE controller_send(st, Event("Unreachable", NoPacket, client_id))

\* the RegisterTo arm
hp_register_to(st, server_id, order) ==
    IF ~st.running THEN is_running(st)
    ELSE IF Contains(st.communication_server_list, server_id)
         THEN generate_and_send_message(st, "RegisterToChat", server_id, order)
         ELSE st

\* the GetClientList and LogOut arms
send_to_registered(st, tag, order) ==
    IF ~st.running THEN is_running(st)
    ELSE IF ~IsSome(st.registered) THEN is_registered(st)
    ELSE generate_and_send_message(st, tag, Unwrap(st.registered), order)

hp_handle_command(st, command, order) ==
    CASE command.name = "AddSender" -> add_sender(st, command.node)
      [] command.name = "RemoveSender" -> remove_sender(st, command.node)
      [] command.name = "InitFlooding" -> hp_start_flooding(st)
      [] command.name = "StartChatClient" -> start_chat_client(st, order)
      [] command.name = "SendMessageTo" -> send_message_to_client(st, command.node, order)
      [] command.name = "RegisterTo" -> hp_register_to(st, command.node, order)
      [] command.name = "GetClientList" -> send_to_registered(st, "GetClientList", order)
      [] command.name = "LogOut" -> send_to_registered(st, "Logout", order)
      [] command.name = "LogNetwork" -> st

(***************************************************************************)
(* SpecCache: the cache driven by arbitrary calls of its four methods.     *)
(* cache_op records the last call: its name, key and return value.         *)
(***************************************************************************)
CacheHops == { << 1, 2, 4 >>, << 1, 3, 4 >> }

CachePackets ==
    { MsgFragment(h, 1, s, f, MaxFragIndex + 1, << f >>) : h \in CacheHops, s \in Sessions, f \in FragIdx }
    \cup { Ack(<< 4, 2, 1 >>, 1, s, 0) : s \in Sessions }

\* no network around the node: the specifications of a single node
NoNetwork == [links |-> << >>, seen |-> << >>, queue |-> << >>, fanned |-> << >>,
              requests |-> 0, started |-> FALSE]

NoItem == [kind |-> "new", name |-> "", packet |-> NoPacket, node |-> 0]

\* ChatClient::new: the fields of a node that has handled nothing yet.
NewFields(senders, source) ==
    /\ packet_send = [n \in senders |-> TRUE]
    /\ flood_id_received = {}
    /\ flood_id_counter = 0
    /\ session_id_counter = 0
    /\ running = FALSE
    /\ registered = None
    /\ client_list = << >>
    /\ communication_server_list = << >>
    /\ fragment_buffer = EmptyBuffers
    /\ message_buffer = << >>
    /\ sent = << >>
    /\ events = << >>
    /\ assembled = << >>
    /\ panicked = FALSE
    /\ last = NoItem
    /\ delivered = {}
    /\ dropped_nacks = [k \in {} |-> 0]
    /\ excluded = {}
    /\ acks = [k \in {} |-> 0]
    /\ variant = source
    /\ controller_recv = << >>
    /\ packet_recv = << >>
    /\ handling = None
    /\ pending_at_select = [commands |-> 0, packets |-> 0]

NewNode(senders, source) == NewFields(senders, source) /\ net = NoNetwork

NewCache ==
    /\ packet_cache = EmptyCache
    /\ cache_op = [op |-> "new", key |-> << 0, 0 >>, ret |-> None]

NewTopology ==
    /\ nodes = EmptyGraph
    /\ topo_op = [op |-> "new", trace |-> << >>, src |-> 0, dst |-> 0, paths |-> << >>,
                  visited |-> {}]

notCache == << nodeFields, nodes, history, variant, topo_op, loop, net >>
notTopology == << nodeFields, packet_cache, history, variant, cache_op, loop, net >>

CacheInit == NewNode({}, "chat_client.rs") /\ NewCache /\ NewTopology

CacheInsert ==
    \E p \in CachePackets :
        /\ \/ << p.session_id, p.fragment_index >> \in DOMAIN packet_cache
           \/ Cardinality(DOMAIN packet_cache) < MaxPending
        /\ packet_cache' = insert(packet_cache, p)
        /\ cache_op' = [op |-> "insert", key |-> << p.session_id, p.fragment_index >>,
                        ret |-> Some(p.pack_type)]
        /\ UNCHANGED notCache

CacheGet ==
    \E s \in Sessions, f \in FragIdx :
        /\ << s, f >> \in DOMAIN packet_cache => packet_cache[<< s, f >>][2] < MaxCounter
        /\ packet_cache' = get_cache(packet_cache, s, f)
        /\ cache_op' = [op |-> "get", key |-> << s, f >>, ret |-> get_ret(packet_cache, s, f)]
        /\ UNCHANGED notCache

CacheRemove ==
    \E s \in Sessions, f \in FragIdx :
        /\ packet_cache' = remove_cache(packet_cache, s, f)
        /\ cache_op' = [op |-> "remove", key |-> << s, f >>,
                        ret |-> Some(remove_ret(packet_cache, s, f))]
        /\ UNCHANGED notCache

CacheRemoveAndGet ==
    \E s \in Sessions, f \in FragIdx :
        /\ packet_cache' = remove_and_get_cache(packet_cache, s, f)
        /\ cache_op' = [op |-> "remove_and_get", key |-> << s, f >>,
                        ret |-> remove_and_get_ret(packet_cache, s, f)]
        /\ UNCHANGED notCache

CacheNext == CacheInsert \/ CacheGet \/ CacheRemove \/ CacheRemoveAndGet

SpecCache == CacheInit /\ [][CacheNext]_vars

(***************************************************************************)
(* C4: the retry counter of a pending entry is cumulative: an insert for   *)
(* a key that already has an entry never resets or lowers its counter.     *)
(***************************************************************************)
C4_InsertKeepsCounter ==
    [][ (cache_op'.op = "insert" /\ cache_op'.ret = Some("MsgFragment")
          /\ cache_op'.key \in DOMAIN packet_cache)
        => packet_cache'[cache_op'.key][2] >= packet_cache[cache_op'.key][2] ]_vars

(***************************************************************************)
(* C7: a remove (the ACK path) of a key that insert stored leaves nothing  *)
(* for get or remove_and_get to return for that key, and every entry with  *)
(* another key is as it was.                                               *)
(***************************************************************************)
C7_RemoveClears ==
    [][ (cache_op'.op = "remove" /\ cache_op'.ret = Some(TRUE))
        => LET k == cache_op'.key
           IN  /\ k \notin DOMAIN packet_cache'
               /\ get_ret(packet_cache', k[1], k[2]) = None
               /\ get_cache(packet_cache', k[1], k[2]) = packet_cache'
               /\ remove_and_get_ret(packet_cache', k[1], k[2]) = None
               /\ \A k2 \in CacheKeys \ {k} :
                     (k2 \in DOMAIN packet_cache) = (k2 \in DOMAIN packet_cache')
               /\ \A k2 \in (DOMAIN packet_cache) \ {k} :
                     packet_cache'[k2] = packet_cache[k2] ]_vars

C7_Witness ==
    /\ cache_op.op = "remove"
    /\ cache_op.ret = Some(TRUE)
    /\ packet_cache # EmptyCache

(***************************************************************************)
(* C30: get of a key that has an entry returns the stored packet with the  *)
(* counter one greater, and leaves that packet with that counter under the *)
(* key and every other entry as it was; get of a key without an entry      *)
(* returns nothing and leaves the cache as it was.                         *)
(***************************************************************************)
C30_GetCounts ==
    [][ cache_op'.op = "get"
        => LET k == cache_op'.key
           IN  IF k \in DOMAIN packet_cache
               THEN /\ cache_op'.ret = Some(<< packet_cache[k][1], packet_cache[k][2] + 1 >>)
                    /\ DOMAIN packet_cache' = DOMAIN packet_cache
                    /\ packet_cache'[k] = << packet_cache[k][1], packet_cache[k][2] + 1 >>
                    /\ \A k2 \in (DOMAIN packet_cache) \ {k} :
                          packet_cache'[k2] = packet_cache[k2]
               ELSE /\ cache_op'.ret = None
                    /\ packet_cache' = packet_cache ]_vars

C30_Witness ==
    /\ cache_op.op = "get"
    /\ IsSome(cache_op.ret)
    /\ Unwrap(cache_op.ret)[2] = 2
    /\ packet_cache[cache_op.key] = Unwrap(cache_op.ret)
    /\ Cardinality(DOMAIN packet_cache) = 2

(***************************************************************************)
(* SpecTopology: the graph, from empty, under arbitrary process_path_trace *)
(* calls and path searches.  topo_op records the last call.                *)
(***************************************************************************)
TrueRole(n) == IF n = 1 THEN "Client" ELSE IF n = MaxTopoNode THEN "Server" ELSE "Drone"
AltRole(n) == IF n = 2 THEN "Client" ELSE TrueRole(n)

IdSeqs(S, maxlen) == UNION { [1..l -> S] : l \in 0..maxlen }

TopoTraces ==
    { [i \in 1..Len(ids) |-> << ids[i], TrueRole(ids[i]) >>] : ids \in IdSeqs(TopoNodes, MaxTrace) }
    \cup { [i \in 1..Len(ids) |-> << ids[i], AltRole(ids[i]) >>] : ids \in IdSeqs(TopoNodes, MaxTrace) }

TopoInit == NewNode({}, "chat_client.rs") /\ NewCache /\ NewTopology

TopoProcessPathTrace ==
    \E t \in TopoTraces :
        /\ nodes' = process_path_trace(nodes, t)
        /\ topo_op' = [op |-> "process_path_trace", trace |-> t, src |-> 0, dst |-> 0,
                       paths |-> << >>, visited |-> {}]
        /\ UNCHANGED notTopology

TopoFindPaths ==
    \E s \in TopoNodes, d \in TopoNodes, order \in IterOrders(MaxTopoNode) :
        /\ nodes' = nodes
        /\ topo_op' = [op |-> "find_paths_to", trace |-> << >>, src |-> s, dst |-> d,
                       paths |-> find_paths_to(nodes, s, d, order),
                       visited |-> visited_after(nodes, s, d, order)]
        /\ UNCHANGED notTopology

TopoNext == TopoProcessPathTrace \/ TopoFindPaths

SpecTopology == TopoInit /\ [][TopoNext]_vars

(***************************************************************************)
(* C2: after any sequence of process_path_trace calls from the empty graph *)
(* the graph is symmetric (b in neighbors(a) iff a in neighbors(b)), and   *)
(* right after a trace is processed each consecutive pair of it is linked  *)
(* in both directions.                                                     *)
(***************************************************************************)
HasEdge(g, a, b) == a \in DOMAIN g /\ b \in g[a].neighbors

C2_Symmetric ==
    /\ \A a \in TopoNodes, b \in TopoNodes : HasEdge(nodes, a, b) <=> HasEdge(nodes, b, a)
    /\ topo_op.op = "process_path_trace" =>
          \A i \in 1..(Len(topo_op.trace) - 1) :
              /\ HasEdge(nodes, topo_op.trace[i][1], topo_op.trace[i + 1][1])
              /\ HasEdge(nodes, topo_op.trace[i + 1][1], topo_op.trace[i][1])

C2_Witness ==
    /\ topo_op.op = "process_path_trace"
    /\ Len(topo_op.trace) = 3
    /\ topo_op.trace[1][1] # topo_op.trace[2][1]
    /\ topo_op.trace[2][1] # topo_op.trace[3][1]
    /\ topo_op.trace[1][1] # topo_op.trace[3][1]
    /\ HasEdge(nodes, topo_op.trace[2][1], topo_op.trace[1][1])
    /\ HasEdge(nodes, topo_op.trace[2][1], topo_op.trace[3][1])

\* the sequences of distinct nodes from src to dst in which every node is a
\* neighbour of the one before it
SimplePaths(g, src, dst) ==
    { p \in UNION { [1..l -> TopoNodes] : l \in 1..MaxTopoNode } :
        /\ p[1] = src
        /\ p[Len(p)] = dst
        /\ \A i \in DOMAIN p, j \in DOMAIN p : i # j => p[i] # p[j]
        /\ \A i \in 1..(Len(p) - 1) : HasEdge(g, p[i], p[i + 1]) }

(***************************************************************************)
(* C18: find_paths_to(src, dst) returns the simple paths from src to dst   *)
(* of the graph, all of them and each once (a returned path starts at src, *)
(* ends at dst, follows edges and repeats no node), whatever the order in  *)
(* which neighbours are iterated, and the visited set is empty when the    *)
(* search has returned.                                                    *)
(***************************************************************************)
C18_AllSimplePaths ==
    topo_op.op = "find_paths_to" =>
        /\ { topo_op.paths[i] : i \in DOMAIN topo_op.paths }
              = SimplePaths(nodes, topo_op.src, topo_op.dst)
        /\ \A i \in DOMAIN topo_op.paths, j \in DOMAIN topo_op.paths :
              i # j => topo_op.paths[i] # topo_op.paths[j]
        /\ topo_op.visited = {}

C18_Witness ==
    /\ topo_op.op = "find_paths_to"
    /\ Len(topo_op.paths) = 2
    /\ \E i \in DOMAIN topo_op.paths : Len(topo_op.paths[i]) = MaxTopoNode
    /\ \A a \in TopoNodes, b \in TopoNodes : a # b => HasEdge(nodes, a, b)

(***************************************************************************)
(* C32: after process_path_trace every node of the trace is in the graph   *)
(* with the role the trace gives it, also a node that was in the graph     *)
(* with another role, and every node that was in the graph is still in it  *)
(* with at least the neighbours it had.                                    *)
(***************************************************************************)
C32_RolesUpserted ==
    [][ topo_op'.op = "process_path_trace"
        => /\ \A i \in DOMAIN topo_op'.trace :
                /\ topo_op'.trace[i][1] \in DOMAIN nodes'
                /\ nodes'[topo_op'.trace[i][1]].node_type = topo_op'.trace[i][2]
           /\ \A n \in DOMAIN nodes :
                /\ n \in DOMAIN nodes'
                /\ nodes[n].neighbors \subseteq nodes'[n].neighbors ]_vars

(***************************************************************************)
(* Spec: the node of chat_client.rs from ChatClient::new on.  One step is  *)
(* one turn of the loop of run(): a command or a packet is received and    *)
(* handled to completion.  A panic unwinds the thread, so a panicked node  *)
(* takes no further step.  The senders given to the constructor, the       *)
(* commands and the packets are drawn from the sets below; node 1 is the   *)
(* client, 2 and 3 are drones, MaxNode is a server.                        *)
(***************************************************************************)
Drones == 2..(MaxNode - 1)
Server == MaxNode

InitSenders == { {2}, {2, 3} }

\* the drone whose receiver may be dropped, and the one added and removed
Crashing == {2}
Pluggable == {3}

Role(n) == IF n = Self THEN "Client" ELSE IF n = Server THEN "Server" ELSE "Drone"

Trace(ids) == [i \in 1..Len(ids) |-> << ids[i], Role(ids[i]) >>]

\* FloodRequests of the server's floods, arriving through a drone
InFloodRequests ==
    { FloodRequest(<< >>, 0, 0, 0, Server, Trace(<< Server, d >>)) : d \in Drones }
    \cup { FloodRequest(<< >>, 0, 0, 0, Server, << >>) }

\* FloodResponses that end here, carrying the paths 1-d-Server
InFloodResponses ==
    { FloodResponse(<< Server, d, Self >>, 2, 0, 0, Trace(<< Self, d, Server >>)) : d \in Drones }

\* a FloodResponse that ends here and carries no trace
InEmptyResponses == { FloodResponse(<< Server, 2, Self >>, 2, 0, 0, << >>) }

InNackTypes ==
    { << "Dropped", 0 >>, << "DestinationIsDrone", 0 >> }
    \cup { << "ErrorInRouting", d >> : d \in Drones }
    \cup { << "UnexpectedRecipient", d >> : d \in Drones }

InNacks ==
    { Nack(<< 2, Self >>, 1, s, 0, t[1], t[2]) : s \in Sessions, t \in InNackTypes }

InAcks == { Ack(<< Server, 2, Self >>, 2, s, 0) : s \in Sessions }

\* the two fragments of a ServerType(Chat) message of the server
InFragments ==
    LET frags == fragment_message(
                     Message(0, Server, Self, TRUE, "ServerType", << Chat >>),
                     << Server, 2, Self >>, 2)
    IN  { frags[i] : i \in 1..Len(frags) }

\* packets in transit through this node, and packets that are not for it
Through == << 2, Self, 3 >>

InTransit ==
    { MsgFragment(Through, 1, 0, 0, 1, << 0 >>), Ack(Through, 1, 0, 0),
      Nack(Through, 1, 0, 0, "Dropped", 0),
      FloodResponse(Through, 1, 0, 0, Trace(<< 3, Self, 2 >>)) }

InMisrouted ==
    { Ack(<< 2, 3 >>, i, 0, 0) : i \in 0..1 } \cup { Ack(<< >>, 0, 0, 0) }

InPackets ==
    InFloodRequests \cup InFloodResponses \cup InNacks \cup InAcks \cup InFragments
    \cup InTransit \cup InMisrouted \cup InEmptyResponses

Command(name, node) == [kind |-> "command", name |-> name, packet |-> NoPacket, node |-> node]
Received(packet) == [kind |-> "packet", name |-> packet.pack_type, packet |-> packet, node |-> 0]

Init == \E senders \in InitSenders : NewNode(senders, "chat_client.rs") /\ NewCache /\ NewTopology

notNode == << variant, cache_op, topo_op, net >>

\* The session counter is capped: a handler that would take it past the
\* last session of the model is not run.
Handle(st, item) ==
    /\ ~panicked
    /\ st.session_id_counter <= MaxSession + 1
    /\ Len(st.communication_server_list) <= MaxServers
    /\ Commit(st, item)
    /\ delivered' = IF item.name = "FloodRequest"
                    THEN delivered \cup {<< item.packet.flood_id, item.packet.initiator_id >>}
                    ELSE delivered
    /\ UNCHANGED notNode

\* One turn of the loop seen as a whole: the item is received and handled.
Step(st, item) == Handle(st, item) /\ UNCHANGED loop

untracked == << dropped_nacks, excluded, acks >>

AddSender ==
    \E n \in Pluggable :
        /\ Step(handle_command(State, Command("AddSender", n), Ascending(MaxNode)),
                Command("AddSender", n))
        /\ UNCHANGED untracked

RemoveSender ==
    \E n \in Pluggable :
        /\ Step(handle_command(State, Command("RemoveSender", n), Ascending(MaxNode)),
                Command("RemoveSender", n))
        /\ UNCHANGED untracked

InitFlooding ==
    /\ Step(handle_command(State, Command("InitFlooding", 0), Ascending(MaxNode)),
            Command("InitFlooding", 0))
    /\ UNCHANGED untracked

StartChatClient ==
    \E order \in IterOrders(MaxNode) :
        /\ Step(handle_command(State, Command("StartChatClient", 0), order),
                Command("StartChatClient", 0))
        /\ UNCHANGED untracked

SendMessageTo ==
    \E order \in IterOrders(MaxNode) :
        /\ Step(handle_command(State, Command("SendMessageTo", Server), order),
                Command("SendMessageTo", Server))
        /\ UNCHANGED untracked

RegisterTo ==
    \E order \in IterOrders(MaxNode) :
        /\ Step(handle_command(State, Command("RegisterTo", Server), order),
                Command("RegisterTo", Server))
        /\ UNCHANGED untracked

GetClientList ==
    \E order \in IterOrders(MaxNode) :
        /\ Step(handle_command(State, Command("GetClientList", 0), order),
                Command("GetClientList", 0))
        /\ UNCHANGED untracked

LogOut ==
    \E order \in IterOrders(MaxNode) :
        /\ Step(handle_command(State, Command("LogOut", Server), order),
                Command("LogOut", Server))
        /\ UNCHANGED untracked

\* The receiver of a neighbour is dropped (the neighbour has crashed): the
\* sender kept in packet_send fails from now on.
ReceiverDropped ==
    \E n \in Crashing \cap DOMAIN packet_send :
        /\ ~panicked
        /\ packet_send[n]
        /\ packet_send' = [packet_send EXCEPT ![n] = FALSE]
        /\ last' = [kind |-> "crash", name |-> "ReceiverDropped", packet |-> NoPacket, node |-> n]
        /\ sent' = << >>
        /\ events' = << >>
        /\ assembled' = << >>
        /\ UNCHANGED << flood_id_received, flood_id_counter, session_id_counter, running,
                        registered, client_list, communication_server_list, fragment_buffer,
                        message_buffer, panicked, nodes, packet_cache,
                        history, variant, cache_op, topo_op, loop, net >>

\* Only process_nack searches paths and draws a random index.
OrdersFor(packet) ==
    IF packet.pack_type = "Nack" /\ packet.nack_type # "DestinationIsDrone"
    THEN IterOrders(MaxNode) ELSE { Ascending(MaxNode) }

RandomsFor(packet) ==
    IF packet.pack_type = "Nack" /\ packet.nack_type = "Dropped" THEN 0..1 ELSE {0}

RecvPacket ==
    \E packet \in InPackets : \E order \in OrdersFor(packet), random \in RandomsFor(packet) :
        /\ Step(handle_packet(State, packet, order, random), Received(packet))
        /\ UNCHANGED untracked

Next ==
    \/ AddSender
    \/ RemoveSender
    \/ InitFlooding
    \/ StartChatClient
    \/ SendMessageTo
    \/ RegisterTo
    \/ GetClientList
    \/ LogOut
    \/ ReceiverDropped
    \/ RecvPacket

Spec == Init /\ [][Next]_vars

(***************************************************************************)
(* What a step did, read off last, sent and events.                        *)
(***************************************************************************)
ForSelf(packet) ==
    /\ packet.hop_index + 1 = Len(packet.hops)
    /\ packet.hops[packet.hop_index + 1] = Self

KeyOf(packet) == << packet.session_id, packet.fragment_index >>

Sent == { sent[i] : i \in DOMAIN sent }
SentKind(kind) == { m \in Sent : m.packet.pack_type = kind }
Escalated == { events[i].packet : i \in DOMAIN events }

NoPath(g, dest) ==
    \A order \in IterOrders(MaxNode) : find_paths_to(g, Self, dest, order) = << >>

\* a Nack of one of the given kinds that ends here and names a pending fragment
NackFor(item, cache, kinds) ==
    /\ item.kind = "packet"
    /\ item.name = "Nack"
    /\ item.packet.nack_type \in kinds
    /\ ForSelf(item.packet)
    /\ KeyOf(item.packet) \in DOMAIN cache

\* the step needs a routing header for a destination that has no path
C6_NeedsPath ==
    \/ /\ last'.kind = "command"
       /\ last'.name = "LogOut"
       /\ running
       /\ NoPath(nodes, last'.node)
    \/ /\ last'.kind = "command"
       /\ last'.name = "StartChatClient"
       /\ \E server \in DOMAIN nodes :
             nodes[server].node_type = "Server" /\ NoPath(nodes, server)
    \/ /\ NackFor(last', packet_cache, {"ErrorInRouting", "UnexpectedRecipient"})
       /\ LET pending == packet_cache[KeyOf(last'.packet)][1]
          IN  /\ pending.hops # << >>
              /\ \A order \in IterOrders(MaxNode) :
                    \A i \in DOMAIN find_paths_to(nodes, Self, Last(pending.hops), order) :
                        Contains(find_paths_to(nodes, Self, Last(pending.hops), order)[i],
                                 last'.packet.nack_node)

(***************************************************************************)
(* C6: when the graph holds no path to a destination, an operation that    *)
(* needs a routing header for it (logout, the queries of StartChatClient,  *)
(* the resend after an ErrorInRouting or UnexpectedRecipient Nack that     *)
(* leaves no path) ends with no fragment sent and the node still running.  *)
(***************************************************************************)
C6_NoPathContained ==
    [][ (~panicked /\ C6_NeedsPath) => (~panicked' /\ SentKind("MsgFragment")' = {}) ]_vars

(***************************************************************************)
(* C9: no sequence of packets and commands aborts the loop of run().       *)
(***************************************************************************)
C9_NeverAborts == ~panicked

(***************************************************************************)
(* C10: a fragment that a step stores anew or resends, and whose next hop  *)
(* hops[hop_index] is not a neighbour, is handed unchanged to the          *)
(* controller.                                                             *)
(***************************************************************************)
C10_MissingHopEscalated ==
    [][ \A k \in DOMAIN packet_cache' :
          LET pending == packet_cache'[k][1]
          IN  ( /\ ~panicked'
                /\ \/ k \notin DOMAIN packet_cache
                   \/ /\ NackFor(last', packet_cache,
                                 {"Dropped", "ErrorInRouting", "UnexpectedRecipient"})
                      /\ k = KeyOf(last'.packet)
                /\ pending.hop_index < Len(pending.hops)
                /\ pending.hops[pending.hop_index + 1] \notin DOMAIN packet_send' )
              => pending \in Escalated' ]_vars

\* the neighbours whose channel fails
DeadNeighbors == { n \in DOMAIN packet_send : ~packet_send[n] }

(***************************************************************************)
(* C11: a send that fails on a neighbour's channel yields one event to the *)
(* controller carrying the packet, FloodRequests included: the flood that  *)
(* InitFlooding starts reports one FloodRequest for every neighbour whose  *)
(* channel fails, and sends nothing to such a neighbour.                   *)
(***************************************************************************)
C11_FailedSendEscalated ==
    [][ (last'.kind = "command" /\ last'.name = "InitFlooding" /\ ~panicked') =>
          /\ \A m \in Sent' : m.to \notin DeadNeighbors
          /\ \A n \in DeadNeighbors :
                Cardinality({ i \in DOMAIN events' :
                                /\ events'[i].packet.pack_type = "FloodRequest"
                                /\ events'[i].packet.initiator_id = Self })
                   = Cardinality(DeadNeighbors) ]_vars

\* a packet other than a FloodRequest whose hops[hop_index] is another node
Misrouted(item) ==
    /\ item.kind = "packet"
    /\ item.name # "FloodRequest"
    /\ item.packet.hop_index < Len(item.packet.hops)
    /\ item.packet.hops[item.packet.hop_index + 1] # Self

UnexpectedRecipientNacks(packets) ==
    { p \in packets : /\ p.pack_type = "Nack"
                      /\ p.nack_type = "UnexpectedRecipient"
                      /\ p.nack_node = Self }

(***************************************************************************)
(* C13: a packet other than a FloodRequest whose hops[hop_index] is not    *)
(* the node, whatever its kind and its hop_index, is answered with a Nack  *)
(* UnexpectedRecipient(own id) handed to the channel of the previous hop   *)
(* (or to the controller when that channel fails); nothing else is sent,   *)
(* the pending cache and the buffers stay as they were, and the node keeps *)
(* running.                                                                *)
(***************************************************************************)
C13_UnexpectedRecipient ==
    [][ Misrouted(last') =>
          /\ ~panicked'
          /\ Cardinality(UnexpectedRecipientNacks({ m.packet : m \in Sent' } \cup Escalated')) = 1
          /\ Len(sent') + Len(events') = 1
          /\ packet_cache' = packet_cache
          /\ fragment_buffer' = fragment_buffer
          /\ assembled' = << >> ]_vars

(***************************************************************************)
(* C16: a DestinationIsDrone Nack that ends at the node puts no packet on  *)
(* any channel, and the controller gets an event for the failed delivery.  *)
(***************************************************************************)
C16_DestinationIsDroneSurfaced ==
    [][ ( /\ last'.kind = "packet"
          /\ last'.name = "Nack"
          /\ last'.packet.nack_type = "DestinationIsDrone"
          /\ ForSelf(last'.packet) )
        => (sent' = << >> /\ events' # << >>) ]_vars

\* an application command that finds the node not running, or (all but
\* RegisterTo) not registered
Rejected(item) ==
    /\ item.kind = "command"
    /\ item.name \in { "SendMessageTo", "GetClientList", "LogOut", "RegisterTo" }
    /\ \/ ~running
       \/ item.name # "RegisterTo" /\ registered = None

(***************************************************************************)
(* C19: SendMessageTo, GetClientList, LogOut or RegisterTo received while  *)
(* the node is not running, or (the first three) not registered, puts no   *)
(* packet on any channel, adds nothing to the pending cache, and sends the *)
(* controller exactly one event, ErrorNotRunning or ErrorNotRegistered.    *)
(***************************************************************************)
C19_RejectedWithEvent ==
    [][ Rejected(last') =>
          /\ sent' = << >>
          /\ packet_cache' = packet_cache
          /\ Len(events') = 1
          /\ events'[1].event \in { "ErrorNotRunning", "ErrorNotRegistered" } ]_vars

(***************************************************************************)
(* C33: a FloodResponse that ends here with an empty path_trace leaves the *)
(* graph as it was and puts no packet on a channel.                        *)
(***************************************************************************)
EmptyTraceResponse(item) ==
    /\ item.kind = "packet"
    /\ item.name = "FloodResponse"
    /\ ForSelf(item.packet)
    /\ item.packet.path_trace = << >>

C33_EmptyTraceIgnored ==
    [][ EmptyTraceResponse(last') => (nodes' = nodes /\ sent' = << >>) ]_vars

C33_Witness ==
    /\ EmptyTraceResponse(last)
    /\ nodes # EmptyGraph
    /\ ~panicked

(***************************************************************************)
(* C37: the fragments a command puts on the channels carry session ids     *)
(* taken from the session counter at or after its value before the        *)
(* command and below its value after it, and the counter never goes back,  *)
(* so two messages of this node never share a session id; and the Ack      *)
(* that process_fragment builds for a received fragment carries the        *)
(* session id of that fragment, not the value of the node's counter.       *)
(***************************************************************************)
C37_SessionIds ==
    [][ /\ session_id_counter' >= session_id_counter
        /\ last'.kind = "command"
           => \A i \in DOMAIN sent' :
                 sent'[i].packet.pack_type = "MsgFragment"
                 => /\ session_id_counter <= sent'[i].packet.session_id
                    /\ sent'[i].packet.session_id < session_id_counter'
        /\ (last'.kind = "packet" /\ last'.name = "MsgFragment" /\ ForSelf(last'.packet))
           => process_fragment_ack(State, last'.packet).session_id = last'.packet.session_id ]_vars

(***************************************************************************)
(* SpecRecovery: chat_client.rs with both drones as neighbours, fed the    *)
(* FloodResponses that teach it the paths 1-2-4 and 1-3-4, the command     *)
(* that makes it send, and the Nacks that come back for what it sent.      *)
(* dropped_nacks counts the Dropped Nacks received per pending fragment,   *)
(* excluded holds the nodes named by ErrorInRouting Nacks since the        *)
(* topology was last learned.                                              *)
(***************************************************************************)
RecoveryNacks ==
    { Nack(<< 2, Self >>, 1, s, 0, t[1], t[2]) :
        s \in Sessions, t \in { << "Dropped", 0 >> } \cup { << "ErrorInRouting", d >> : d \in Drones } }

NackCount(counts, k) == IF k \in DOMAIN counts THEN counts[k] ELSE 0

RecoveryInit == NewNode(Drones, "chat_client.rs") /\ NewCache /\ NewTopology

RecoveryLearn ==
    \E packet \in InFloodResponses :
        /\ Step(handle_packet(State, packet, Ascending(MaxNode), 0), Received(packet))
        /\ excluded' = {}
        /\ UNCHANGED << dropped_nacks, acks >>

RecoveryStart ==
    \E order \in IterOrders(MaxNode) :
        /\ Step(handle_command(State, Command("StartChatClient", 0), order),
                Command("StartChatClient", 0))
        /\ UNCHANGED untracked

RecoveryNack ==
    \E packet \in RecoveryNacks : \E order \in IterOrders(MaxNode), random \in RandomsFor(packet) :
        LET k == KeyOf(packet)
            pending == k \in DOMAIN packet_cache
        IN  /\ NackCount(dropped_nacks, k) < MaxCounter
            /\ Step(handle_packet(State, packet, order, random), Received(packet))
            /\ dropped_nacks' =
                  IF pending /\ packet.nack_type = "Dropped"
                  THEN [j \in DOMAIN dropped_nacks \cup {k} |->
                          IF j = k THEN NackCount(dropped_nacks, k) + 1 ELSE dropped_nacks[j]]
                  ELSE dropped_nacks
            /\ excluded' =
                  IF pending /\ packet.nack_type = "ErrorInRouting"
                  THEN excluded \cup { packet.nack_node }
                  ELSE excluded
            /\ UNCHANGED acks

\* An Ack for one of the node's fragments, at most MaxAcks times for a key.
MaxAcks == 2

RecoveryAck ==
    \E packet \in InAcks :
        LET k == KeyOf(packet)
        IN  /\ NackCount(acks, k) < MaxAcks
            /\ Step(handle_packet(State, packet, Ascending(MaxNode), 0), Received(packet))
            /\ acks' = [j \in DOMAIN acks \cup {k} |->
                          IF j = k THEN NackCount(acks, k) + 1 ELSE acks[j]]
            /\ UNCHANGED << dropped_nacks, excluded >>

RecoveryNext ==
    \/ RecoveryLearn
    \/ RecoveryStart
    \/ RecoveryNack
    \/ RecoveryAck

SpecRecovery == RecoveryInit /\ [][RecoveryNext]_vars

(***************************************************************************)
(* C3: of the Dropped Nacks received for one pending fragment, those       *)
(* before the third leave its stored routing header as it is and resend    *)
(* it, and the third (the counter reaches the low threshold) resends it    *)
(* with a header other than the stored one when another path is known.     *)
(***************************************************************************)
C3_SwitchAtThreshold ==
    [][ (NackFor(last', packet_cache, {"Dropped"}) /\ ~panicked') =>
          LET k == KeyOf(last'.packet)
              stored == packet_cache[k][1]
              n == dropped_nacks'[k]
          IN  /\ n < LowThreshold =>
                    /\ k \in DOMAIN packet_cache'
                    /\ packet_cache'[k][1] = stored
              /\ ( /\ n = LowThreshold
                   /\ stored.hops # << >>
                   /\ \A order \in IterOrders(MaxNode) :
                         Len(find_paths_to(nodes, Self, Last(stored.hops), order)) >= 2 )
                 => /\ k \in DOMAIN packet_cache'
                    /\ packet_cache'[k][1].hops # stored.hops ]_vars

(***************************************************************************)
(* C5: an ErrorInRouting(n) Nack for a pending fragment whose path holds n *)
(* while another known path to its destination does not, puts the fragment *)
(* on the channel of a neighbour with a header that does not contain n,    *)
(* and every header the step stores avoids the nodes excluded so far.      *)
(***************************************************************************)
C5_RerouteAvoidsFaulty ==
    [][ ( /\ NackFor(last', packet_cache, {"ErrorInRouting"})
          /\ LET stored == packet_cache[KeyOf(last'.packet)][1]
             IN  /\ stored.hops # << >>
                 /\ Contains(stored.hops, last'.packet.nack_node)
                 /\ \A order \in IterOrders(MaxNode) :
                       \E i \in DOMAIN find_paths_to(nodes, Self, Last(stored.hops), order) :
                          ~Contains(find_paths_to(nodes, Self, Last(stored.hops), order)[i],
                                    last'.packet.nack_node) )
        => /\ \E m \in SentKind("MsgFragment")' :
                 /\ KeyOf(m.packet) = KeyOf(last'.packet)
                 /\ ~Contains(m.packet.hops, last'.packet.nack_node)
           /\ \A k \in DOMAIN packet_cache' :
                 (k \notin DOMAIN packet_cache \/ packet_cache'[k][1] # packet_cache[k][1])
                 => \A n \in excluded' : ~Contains(packet_cache'[k][1].hops, n) ]_vars

\* every known path to the destination of the pending fragment named by the
\* Nack holds the node the Nack names
NoPathAvoiding(item, cache, g) ==
    LET pending == cache[KeyOf(item.packet)][1]
    IN  /\ pending.hops # << >>
        /\ \A order \in IterOrders(MaxNode) :
              \A i \in DOMAIN find_paths_to(g, Self, Last(pending.hops), order) :
                  Contains(find_paths_to(g, Self, Last(pending.hops), order)[i],
                           item.packet.nack_node)

(***************************************************************************)
(* C14: an ErrorInRouting(n) Nack for a pending fragment, when every known *)
(* path to its destination holds n and the cleared graph gives none        *)
(* either, takes the fragment out of the pending cache, puts no fragment   *)
(* on any channel, and reports the fragment to the controller.             *)
(***************************************************************************)
C14_UndeliverableReported ==
    [][ ( /\ NackFor(last', packet_cache, {"ErrorInRouting"})
          /\ NoPathAvoiding(last', packet_cache, nodes) )
        => /\ KeyOf(last'.packet) \notin DOMAIN packet_cache'
           /\ SentKind("MsgFragment")' = {}
           /\ \E i \in DOMAIN events' :
                 /\ events'[i].packet.pack_type = "MsgFragment"
                 /\ KeyOf(events'[i].packet) = KeyOf(last'.packet) ]_vars

(***************************************************************************)
(* C23: every fragment the node has stored as pending, put on a channel or *)
(* handed to the controller, on the first send as on every resend and      *)
(* reroute, carries a header whose first hop is the node itself, whose     *)
(* last hop is the destination (the server) and whose hop_index is 1.      *)
(***************************************************************************)
OwnFragments ==
    { packet_cache[k][1] : k \in DOMAIN packet_cache }
    \cup { m.packet : m \in SentKind("MsgFragment") }
    \cup { p \in Escalated : p.pack_type = "MsgFragment" }

C23_OwnHeaders ==
    \A p \in OwnFragments :
        /\ p.hops # << >>
        /\ p.hops[1] = Self
        /\ Last(p.hops) = Server
        /\ p.hop_index = 1

(***************************************************************************)
(* C31: remove returns true exactly for a key that has an entry.  An Ack   *)
(* that ends here takes the entry of its key out of the cache and leaves   *)
(* the other entries; an Ack for a key without an entry (a duplicate Ack)  *)
(* gets false from remove, leaves the cache as it was and puts no packet   *)
(* on a channel.                                                           *)
(***************************************************************************)
C31_RemoveReportsExistence ==
    [][ (last'.kind = "packet" /\ last'.name = "Ack" /\ ForSelf(last'.packet))
        => LET k == KeyOf(last'.packet)
           IN  /\ remove_ret(packet_cache, k[1], k[2]) = (k \in DOMAIN packet_cache)
               /\ packet_cache' = remove_cache(packet_cache, k[1], k[2])
               /\ k \notin DOMAIN packet_cache'
               /\ ~remove_ret(packet_cache', k[1], k[2])
               /\ k \notin DOMAIN packet_cache
                  => /\ packet_cache' = packet_cache
                     /\ sent' = << >> ]_vars

\* a second Ack for a fragment that was pending (it had drawn a Dropped Nack)
C31_Witness ==
    /\ last.kind = "packet" /\ last.name = "Ack"
    /\ NackCount(acks, KeyOf(last.packet)) = 2
    /\ NackCount(dropped_nacks, KeyOf(last.packet)) >= 1
    /\ KeyOf(last.packet) \notin DOMAIN packet_cache
    /\ sent = << >>

(***************************************************************************)
(* C36: a Nack of any type that ends here for a key without an entry puts  *)
(* no packet on a channel, creates no entry and leaves the graph as it is. *)
(* The handler of an Ack leaves its key without an entry and no handler of *)
(* a packet gives a key an entry it did not have, so this is the case of   *)
(* every Nack after the Ack of its key, and of a Nack for a key that never *)
(* had an entry.                                                           *)
(***************************************************************************)
C36_LateNackIgnored ==
    [][ /\ (last'.kind = "packet" /\ last'.name = "Nack" /\ ForSelf(last'.packet)
              /\ KeyOf(last'.packet) \notin DOMAIN packet_cache)
           => /\ sent' = << >>
              /\ packet_cache' = packet_cache
              /\ nodes' = nodes
              /\ ~panicked'
        /\ \A k \in DOMAIN packet_cache' :
              k \notin DOMAIN packet_cache => last'.kind = "command" ]_vars

\* a Dropped Nack for a fragment that was pending and has been acknowledged
C36_Witness ==
    /\ last.kind = "packet" /\ last.name = "Nack" /\ ForSelf(last.packet)
    /\ NackCount(acks, KeyOf(last.packet)) >= 1
    /\ NackCount(dropped_nacks, KeyOf(last.packet)) >= 1
    /\ KeyOf(last.packet) \notin DOMAIN packet_cache
    /\ sent = << >>

(***************************************************************************)
(* SpecModules: a node built from chat_client/, either from                *)
(* process_packet/ or from handle_packet/, with both drones as neighbours. *)
(***************************************************************************)
ListOfClients == Message(1, Server, Self, TRUE, "ClientList", << 1, 2, 3, 4, 5 >>)
LogOutOfThree == Message(1, 3, Self, TRUE, "SuccessfullLogOut", << >>)

ModuleMessages == { ListOfClients, LogOutOfThree }

\* the fragments of the two messages, which share a session and differ in source
ModuleFragments ==
    LET a == fragment_message(ListOfClients, << Server, 2, Self >>, 2)
        b == fragment_message(LogOutOfThree, << 3, Self >>, 1)
    IN  { a[i] : i \in DOMAIN a } \cup { b[i] : i \in DOMAIN b }

\* Nacks and the Ack for the first fragment the node sends
ModuleNacks ==
    { Nack(<< 2, Self >>, 1, 0, 0, t[1], t[2]) :
        t \in { << "Dropped", 0 >>, << "DestinationIsDrone", 0 >>,
                << "ErrorInRouting", 2 >>, << "UnexpectedRecipient", 3 >> } }

ModulePackets ==
    InFloodRequests \cup { FloodRequest(<< >>, 0, 0, 0, Server, Trace(<< Server, 3, 2 >>)) }
    \cup InFloodResponses \cup ModuleNacks \cup { Ack(<< Server, 2, Self >>, 2, 0, 0) }
    \cup ModuleFragments
    \cup { MsgFragment(Through, 1, 0, 0, 1, << 0 >>), Ack(<< 2, 3 >>, 1, 0, 0) }

\* The counter of a pending fragment is capped: a Dropped Nack that would
\* take it past the last count of the model is not handled.
WithinCounter(packet) ==
    (packet.pack_type = "Nack" /\ packet.nack_type = "Dropped"
        /\ KeyOf(packet) \in DOMAIN packet_cache)
    => packet_cache[KeyOf(packet)][2] < MaxCounter

ModuleSources == { "process_packet", "handle_packet" }

ModulesInit ==
    \E source \in ModuleSources : NewNode(Drones, source) /\ NewCache /\ NewTopology

HpRecvPacket ==
    \E packet \in ModulePackets : \E order \in OrdersFor(packet) :
        /\ variant = "handle_packet"
        /\ WithinCounter(packet)
        /\ Step(hp_handle_packet(State, packet, order), Received(packet))
        /\ UNCHANGED untracked

\* The build decides what a subtraction below zero does.
ChecksFor(packet) ==
    IF packet.pack_type = "FloodRequest" /\ Len(packet.path_trace) < 2
    THEN BOOLEAN ELSE { TRUE }

PpRecvPacket ==
    \E packet \in ModulePackets :
      \E order \in OrdersFor(packet), random \in RandomsFor(packet),
         overflow_checks \in ChecksFor(packet) :
        /\ variant = "process_packet"
        /\ WithinCounter(packet)
        /\ Step(pp_handle_packet(State, packet, order, random, overflow_checks),
                Received(packet))
        /\ UNCHANGED untracked

ModulesStart ==
    \E order \in IterOrders(MaxNode) :
        /\ variant \in ModuleSources
        /\ Step(start_chat_client(State, order), Command("StartChatClient", 0))
        /\ UNCHANGED untracked

ModulesNext ==
    \/ HpRecvPacket
    \/ PpRecvPacket
    \/ ModulesStart

SpecModules == ModulesInit /\ [][ModulesNext]_vars

FloodRequestFrom(item) ==
    /\ item.kind = "packet"
    /\ item.name = "FloodRequest"
    /\ item.packet.path_trace # << >>

(***************************************************************************)
(* C1: a FloodRequest that arrives from a live neighbour is, the first     *)
(* time its (flood_id, initiator) is delivered, forwarded to every other   *)
(* live neighbour and to no one else; delivered again, it is forwarded to  *)
(* no one and answered by exactly one FloodResponse, sent to the neighbour *)
(* it arrived from.                                                        *)
(***************************************************************************)
C1_FanOutOnce ==
    [][ ( /\ FloodRequestFrom(last')
          /\ ~panicked'
          /\ Last(TraceIds(last'.packet.path_trace)) \in DOMAIN packet_send
          /\ packet_send[Last(TraceIds(last'.packet.path_trace))] )
        => LET previous == Last(TraceIds(last'.packet.path_trace))
               others == { n \in DOMAIN packet_send : n # previous }
               forwarded == { m.to : m \in SentKind("FloodRequest")' }
               responses == { i \in DOMAIN sent' : sent'[i].packet.pack_type = "FloodResponse" }
           IN  IF << last'.packet.flood_id, last'.packet.initiator_id >> \notin delivered
               THEN /\ forwarded \subseteq others
                    /\ { n \in others : packet_send[n] } \subseteq forwarded
               ELSE /\ forwarded = {}
                    /\ Cardinality(responses) = 1
                    /\ \A i \in responses : sent'[i].to = previous ]_vars

\* the message a fragment was cut from
Origin(packet) ==
    CHOOSE m \in ModuleMessages :
        m.session_id = packet.session_id /\ m.source_id = packet.hops[1]

\* the fragment indices held for a (session_id, source)
Buffered(fb, key) == IF key \in DOMAIN fb THEN DOMAIN fb[key] ELSE {}

SentAcks == { i \in DOMAIN sent : sent[i].packet.pack_type = "Ack" }

(***************************************************************************)
(* C12: a MsgFragment received as its final destination is answered by     *)
(* exactly one Ack put on a neighbour's channel, with the fragment's       *)
(* fragment_index and session_id, a header whose hops are the fragment's   *)
(* hops reversed, sent to the hop the fragment came from.                  *)
(***************************************************************************)
C12_OneAckPerFragment ==
    [][ ( /\ last'.kind = "packet"
          /\ last'.name = "MsgFragment"
          /\ ForSelf(last'.packet) )
        => /\ ~panicked'
           /\ Cardinality(SentAcks') = 1
           /\ \A i \in SentAcks' :
                 /\ sent'[i].packet.fragment_index = last'.packet.fragment_index
                 /\ sent'[i].packet.session_id = last'.packet.session_id
                 /\ sent'[i].packet.hops = Reverse(last'.packet.hops)
                 /\ sent'[i].to = last'.packet.hops[Len(last'.packet.hops) - 1] ]_vars

(***************************************************************************)
(* C15: an UnexpectedRecipient(n) Nack for a pending fragment resends it,  *)
(* if at all, with a header that does not contain n, and the header kept   *)
(* in the pending cache does not contain n either; when every known path   *)
(* holds n, no fragment is sent and the controller gets an event.          *)
(***************************************************************************)
C15_ResendAvoidsNamed ==
    [][ NackFor(last', packet_cache, {"UnexpectedRecipient"})
        => /\ \A m \in SentKind("MsgFragment")' :
                 ~Contains(m.packet.hops, last'.packet.nack_node)
           /\ KeyOf(last'.packet) \in DOMAIN packet_cache'
                 => ~Contains(packet_cache'[KeyOf(last'.packet)][1].hops,
                              last'.packet.nack_node)
           /\ NoPathAvoiding(last', packet_cache, nodes)
                 => (SentKind("MsgFragment")' = {} /\ events' # << >>) ]_vars

(***************************************************************************)
(* C22: an entry of the pending fragments leaves the cache only in the     *)
(* handling of an Ack or of a Nack that ends here and carries its          *)
(* (session_id, fragment_index); a MsgFragment received with the same      *)
(* session and index leaves the entry of the outbound fragment in place.   *)
(***************************************************************************)
C22_EntryLeavesOnAckOrReroute ==
    [][ \A k \in DOMAIN packet_cache :
            k \notin DOMAIN packet_cache'
            => /\ last'.kind = "packet"
               /\ last'.packet.pack_type \in { "Ack", "Nack" }
               /\ ForSelf(last'.packet)
               /\ KeyOf(last'.packet) = k ]_vars

(***************************************************************************)
(* C25: a FloodRequest delivered for the first time, whose trace ends with *)
(* the node p it arrived from, is forwarded to every neighbour other than  *)
(* p whose channel takes it, to no one else, and answered by no            *)
(* FloodResponse when the node has a neighbour other than p; when it has   *)
(* none, nothing is forwarded and exactly one FloodResponse leaves, for p. *)
(* The neighbour set is any set, with or without p in it.                  *)
(***************************************************************************)
C25_ForwardOrDeadEnd ==
    [][ ( /\ FloodRequestFrom(last')
          /\ ~panicked'
          /\ << last'.packet.flood_id, last'.packet.initiator_id >> \notin delivered )
        => LET p == Last(TraceIds(last'.packet.path_trace))
               others == { n \in DOMAIN packet_send : n # p }
               forwarded == { m.to : m \in SentKind("FloodRequest")' }
               responses == { i \in DOMAIN sent' : sent'[i].packet.pack_type = "FloodResponse" }
               handed == { i \in DOMAIN events' :
                             events'[i].packet.pack_type = "FloodResponse" }
           IN  IF others # {}
               THEN /\ forwarded \subseteq others
                    /\ { n \in others : packet_send[n] } \subseteq forwarded
                    /\ responses = {}
                    /\ handed = {}
               ELSE /\ forwarded = {}
                    /\ Cardinality(responses) + Cardinality(handed) = 1
                    /\ \A i \in responses : sent'[i].to = p ]_vars

(***************************************************************************)
(* C26: every copy of a FloodRequest that the node forwards carries the    *)
(* flood_id and the initiator_id of the request received, and a path_trace *)
(* that is the received trace followed by the one entry (own id, Client).  *)
(***************************************************************************)
C26_ForwardedCopy ==
    [][ FloodRequestFrom(last')
        => \A m \in SentKind("FloodRequest")' :
              /\ m.packet.flood_id = last'.packet.flood_id
              /\ m.packet.initiator_id = last'.packet.initiator_id
              /\ m.packet.path_trace = Append(last'.packet.path_trace, << Self, "Client" >>) ]_vars

C26_Witness ==
    /\ FloodRequestFrom(last)
    /\ \E m \in SentKind("FloodRequest") :
          /\ m.to # Last(TraceIds(last.packet.path_trace))
          /\ Len(m.packet.path_trace) = Len(last.packet.path_trace) + 1

(***************************************************************************)
(* C27: every FloodResponse the node produces for a FloodRequest has a     *)
(* path_trace that ends with (own id, Client), a hop list that is the node *)
(* ids of that trace reversed, from this node to the initiator of the      *)
(* flood, and hop_index 1; put on a channel, it is on the channel of the   *)
(* neighbour the request arrived from.                                     *)
(***************************************************************************)
ResponseFor(request, response) ==
    /\ response.path_trace # << >>
    /\ Last(response.path_trace) = << Self, "Client" >>
    /\ response.hops = Reverse(TraceIds(response.path_trace))
    /\ response.hops[1] = Self
    /\ Last(response.hops) = request.initiator_id
    /\ response.hop_index = 1

C27_ResponseHeader ==
    [][ FloodRequestFrom(last')
        => /\ \A m \in SentKind("FloodResponse")' :
                /\ ResponseFor(last'.packet, m.packet)
                /\ m.to = Last(TraceIds(last'.packet.path_trace))
           /\ \A i \in DOMAIN events' :
                events'[i].packet.pack_type = "FloodResponse"
                => ResponseFor(last'.packet, events'[i].packet) ]_vars

(***************************************************************************)
(* C28: flood_id_counter never decreases, and a step in which the node     *)
(* starts a flood of its own uses the counter as flood_id and leaves it    *)
(* greater, so that no two floods of the node share a (flood_id, own id);  *)
(* the requests carry the trace [(own id, Client)] and are put once on the *)
(* channel of each neighbour in the map that takes them, and on no other.  *)
(***************************************************************************)
OwnFloods(packets) ==
    { i \in DOMAIN packets :
        /\ packets[i].packet.pack_type = "FloodRequest"
        /\ packets[i].packet.initiator_id = Self }

C28_FreshFlood ==
    [][ /\ flood_id_counter' >= flood_id_counter
        /\ OwnFloods(sent') # {}
           => /\ flood_id_counter' > flood_id_counter
              /\ \A i \in OwnFloods(sent') :
                    /\ sent'[i].packet.flood_id = flood_id_counter
                    /\ sent'[i].packet.path_trace = << << Self, "Client" >> >>
                    /\ sent'[i].to \in DOMAIN packet_send'
                    /\ \A j \in OwnFloods(sent') : sent'[j].to = sent'[i].to => j = i
              /\ \A n \in DOMAIN packet_send' :
                    packet_send'[n] => \E i \in OwnFloods(sent') : sent'[i].to = n ]_vars

C28_Witness ==
    /\ last.name = "InitFlooding"
    /\ flood_id_counter = 2
    /\ Cardinality(OwnFloods(sent)) = 2
    /\ \A i \in OwnFloods(sent) : sent[i].packet.flood_id = 1

(***************************************************************************)
(* C29: a MsgFragment, Ack, Nack or FloodResponse that names this node as  *)
(* its current hop and a live neighbour as the next one is put on the      *)
(* channel of that neighbour as it was received, with hop_index one        *)
(* greater, and nothing else is sent: a Nack in transit goes on towards    *)
(* its destination with its own nack_type.                                 *)
(***************************************************************************)
Relayed(item) ==
    /\ item.kind = "packet"
    /\ item.name \in { "MsgFragment", "Ack", "Nack", "FloodResponse" }
    /\ item.packet.hop_index + 1 < Len(item.packet.hops)
    /\ item.packet.hops[item.packet.hop_index + 1] = Self

C29_RelayedUnchanged ==
    [][ ( /\ Relayed(last')
          /\ last'.packet.hops[last'.packet.hop_index + 2] \in DOMAIN packet_send
          /\ packet_send[last'.packet.hops[last'.packet.hop_index + 2]] )
        => sent' = << [to |-> last'.packet.hops[last'.packet.hop_index + 2],
                       packet |-> [last'.packet EXCEPT !.hop_index = @ + 1]] >> ]_vars

(***************************************************************************)
(* SpecLoop: the loop of run() of chat_client.rs with its two channels.    *)
(* The controller and the neighbours put commands and packets on the       *)
(* channels at any time, also while a handler runs; a turn of the loop     *)
(* selects one item (LoopSelect) and then handles it (LoopHandle).  The    *)
(* senders of both channels stay alive, so recv never yields Err.          *)
(***************************************************************************)
MaxQueue == 2

LoopCommands == { Command("InitFlooding", 0), Command("StartChatClient", 0) }

LoopPackets ==
    { FloodResponse(<< Server, 2, Self >>, 2, 0, 0, Trace(<< Self, 2, Server >>)),
      Ack(<< Server, 2, Self >>, 2, 0, 0) }

\* select_biased!: the first operation, in the order written, that is ready
SelectPacketFirst(commands, packets) ==
    IF packets # << >> THEN "packet_recv"
    ELSE IF commands # << >> THEN "controller_recv"
    ELSE "blocked"

select_biased(commands, packets) ==
    IF commands # << >> THEN "controller_recv"
    ELSE IF packets # << >> THEN "packet_recv"
    ELSE "blocked"

notLoop == << nodeFields, nodes, packet_cache, history, variant, cache_op, topo_op, net >>

LoopInit == NewNode({2}, "chat_client.rs") /\ NewCache /\ NewTopology

LoopSendCommand ==
    \E command \in LoopCommands :
        /\ Len(controller_recv) < MaxQueue
        /\ controller_recv' = Append(controller_recv, command)
        /\ UNCHANGED << packet_recv, handling, pending_at_select, notLoop >>

LoopSendPacket ==
    \E packet \in LoopPackets :
        /\ Len(packet_recv) < MaxQueue
        /\ packet_recv' = Append(packet_recv, Received(packet))
        /\ UNCHANGED << controller_recv, handling, pending_at_select, notLoop >>

LoopSelect ==
    /\ ~panicked
    /\ handling = None
    /\ select_biased(controller_recv, packet_recv) # "blocked"
    /\ IF select_biased(controller_recv, packet_recv) = "controller_recv"
       THEN /\ handling' = Some(Head(controller_recv))
            /\ controller_recv' = Tail(controller_recv)
            /\ packet_recv' = packet_recv
       ELSE /\ handling' = Some(Head(packet_recv))
            /\ packet_recv' = Tail(packet_recv)
            /\ controller_recv' = controller_recv
    /\ pending_at_select' = [commands |-> Len(controller_recv), packets |-> Len(packet_recv)]
    /\ UNCHANGED notLoop

LoopHandle ==
    /\ handling # None
    /\ LET item == Unwrap(handling)
       IN  IF item.kind = "command"
           THEN \E order \in IterOrders(MaxNode) :
                    Handle(handle_command(State, item, order), item)
           ELSE \E order \in OrdersFor(item.packet), random \in RandomsFor(item.packet) :
                    Handle(handle_packet(State, item.packet, order, random), item)
    /\ handling' = None
    /\ UNCHANGED << controller_recv, packet_recv, pending_at_select, untracked >>

LoopNext ==
    \/ LoopSendCommand
    \/ LoopSendPacket
    \/ LoopSelect
    \/ LoopHandle

SpecLoop == LoopInit /\ [][LoopNext]_vars

(***************************************************************************)
(* C17: an item is taken from a channel only while no handler runs; a      *)
(* packet is taken only when no command is waiting, so with a command and  *)
(* a packet both waiting the command is taken; the item taken is the head  *)
(* of its channel, and it is the item the next handler runs on, to its     *)
(* end, before anything else is taken.                                     *)
(***************************************************************************)
C17_CommandFirst ==
    [][ /\ Len(packet_recv') < Len(packet_recv)
           => /\ handling = None
              /\ controller_recv = << >>
              /\ handling' = Some(Head(packet_recv))
              /\ packet_recv' = Tail(packet_recv)
        /\ Len(controller_recv') < Len(controller_recv)
           => /\ handling = None
              /\ handling' = Some(Head(controller_recv))
              /\ controller_recv' = Tail(controller_recv)
        /\ (handling # None /\ handling' # handling)
           => /\ handling' = None
              /\ last' = Unwrap(handling)
        /\ (handling' # None /\ Unwrap(handling').kind = "packet")
           => pending_at_select'.commands = 0 ]_vars

C17_Witness ==
    /\ handling = None
    /\ last.kind = "command"
    /\ pending_at_select.commands > 0
    /\ pending_at_select.packets > 0
    /\ packet_recv # << >>

(***************************************************************************)
(* SpecFlood: a network of nodes that all handle a FloodRequest as         *)
(* chat_client.rs does.  net.links gives each node its neighbours (its     *)
(* packet_send), net.seen its flood_id_received, net.queue the packets     *)
(* waiting on its packet_recv.  Node 1 starts one flood; every node takes  *)
(* the packets of its channel in order.  net.fanned counts the times a     *)
(* node has sent the flood to its neighbours, net.requests the             *)
(* FloodRequests sent in all.  FloodResponses are sent and not followed.   *)
(* A node's loop blocks on its channels and handles what arrives, so while *)
(* packets wait on channels some node takes one.                           *)
(***************************************************************************)
NetNodes == 1..MaxNode

Ring == [n \in NetNodes |-> { IF n = 1 THEN MaxNode ELSE n - 1,
                              IF n = MaxNode THEN 1 ELSE n + 1 }]

\* every network over the nodes: a link is a pair of nodes, each of which
\* holds a sender to the other
Links == { pair \in SUBSET NetNodes : Cardinality(pair) = 2 }

FloodNetworks ==
    { [n \in NetNodes |-> { m \in NetNodes : {n, m} \in linked }] : linked \in SUBSET Links }

NewNetwork(links) ==
    [links |-> links, seen |-> [n \in NetNodes |-> {}], queue |-> [n \in NetNodes |-> << >>],
     fanned |-> [n \in NetNodes |-> 0], requests |-> 0, started |-> FALSE]

\* the fields of node n of the network
NodeAt(n) ==
    [State EXCEPT !.id = n,
                  !.packet_send = [m \in net.links[n] |-> TRUE],
                  !.flood_id_received = net.seen[n]]

Requests(st) == SelectSeq(st.sent, LAMBDA m : m.packet.pack_type = "FloodRequest")

\* Sender::send: the packet joins the packets waiting on the receiver's channel
RECURSIVE Post(_, _)
Post(queue, msgs) ==
    IF msgs = << >> THEN queue
    ELSE Post([queue EXCEPT ![Head(msgs).to] = Append(@, Head(msgs).packet)], Tail(msgs))

Fanned(st) == IF Requests(st) = << >> THEN 0 ELSE 1

notNet == << nodeFields, nodes, packet_cache, history, variant, cache_op, topo_op, loop >>

FloodInit ==
    /\ NewFields({}, "chat_client.rs") /\ NewCache /\ NewTopology
    /\ \E links \in FloodNetworks : net = NewNetwork(links)

FloodStart ==
    /\ ~net.started
    /\ LET st == handle_command(NodeAt(Self), Command("InitFlooding", 0), Ascending(MaxNode))
       IN  net' = [net EXCEPT !.started = TRUE,
                              !.queue = Post(@, Requests(st)),
                              !.fanned[Self] = @ + Fanned(st),
                              !.requests = @ + Len(Requests(st))]
    /\ UNCHANGED notNet

FloodDeliverAt(n) ==
    /\ net.queue[n] # << >>
    /\ LET st == handle_packet(NodeAt(n), Head(net.queue[n]), Ascending(MaxNode), 0)
       IN  net' = [net EXCEPT !.seen[n] = st.flood_id_received,
                              !.queue = Post([@ EXCEPT ![n] = Tail(@)], Requests(st)),
                              !.fanned[n] = @ + Fanned(st),
                              !.requests = @ + Len(Requests(st))]
    /\ UNCHANGED notNet

FloodDeliver == \E n \in NetNodes : FloodDeliverAt(n)

FloodNext ==
    \/ FloodStart
    \/ FloodDeliver

SpecFlood == FloodInit /\ [][FloodNext]_vars /\ WF_vars(FloodDeliver)

Quiet == \A n \in DOMAIN net.queue : net.queue[n] = << >>

MaxDrops == 32

DroppedNacks == { Nack(<< d, Self >>, 1, 0, 0, "Dropped", 0) : d \in Drones }

ModuleHandle(st, packet, order, random) ==
    IF st.variant = "handle_packet" THEN hp_handle_packet(st, packet, order)
    ELSE pp_handle_packet(st, packet, order, random, TRUE)

DroppedInit ==
    \E source \in ModuleSources : NewNode(Drones, source) /\ NewCache /\ NewTopology

DroppedLearn ==
    \E packet \in InFloodResponses :
        /\ Step(ModuleHandle(State, packet, Ascending(MaxNode), 0), Received(packet))
        /\ UNCHANGED untracked

DroppedStart ==
    \E order \in IterOrders(MaxNode) :
        /\ Step(start_chat_client(State, order), Command("StartChatClient", 0))
        /\ UNCHANGED untracked

DroppedNack ==
    \E packet \in DroppedNacks : \E order \in IterOrders(MaxNode), random \in RandomsFor(packet) :
        LET k == KeyOf(packet)
        IN  /\ NackCount(dropped_nacks, k) < MaxDrops
            /\ Step(ModuleHandle(State, packet, order, random), Received(packet))
            /\ dropped_nacks' =
                  IF k \in DOMAIN packet_cache
                  THEN [j \in DOMAIN dropped_nacks \cup {k} |->
                          IF j = k THEN NackCount(dropped_nacks, k) + 1 ELSE dropped_nacks[j]]
                  ELSE dropped_nacks
            /\ UNCHANGED << excluded, acks >>

DroppedNext ==
    \/ DroppedLearn
    \/ DroppedStart
    \/ DroppedNack

SpecDropped == DroppedInit /\ [][DroppedNext]_vars

C24_DroppedRerouteDiffers ==
    [][ ( /\ NackFor(last', packet_cache, {"Dropped"})
          /\ variant # "handle_packet"
          /\ packet_cache[KeyOf(last'.packet)][2] + 1 >= LowThreshold
          /\ packet_cache[KeyOf(last'.packet)][1].hops # << >> )
        => LET k == KeyOf(last'.packet)
               stored == packet_cache[k][1]
               paths == find_paths_to(nodes, Self, Last(stored.hops), Ascending(MaxNode))
           IN  /\ Len(paths) > 1
                  => /\ k \in DOMAIN packet_cache'
                     /\ packet_cache'[k][1].hops # stored.hops
                     /\ \A i \in DOMAIN sent' :
                           sent'[i].packet.pack_type = "MsgFragment"
                           => sent'[i].packet.hops # stored.hops
               /\ paths = << >> => (~panicked' /\ events' # << >>) ]_vars

(***************************************************************************)
(* SpecDelivery: the node, built from chat_client.rs or from               *)
(* handle_packet/, with drone 2 as its neighbour in a network where the    *)
(* drones form a chain from the node to the server and drone 2 also has a  *)
(* link to the server.  net.links holds the links that are up.  The node   *)
(* learns paths from FloodResponses, StartChatClient makes it send its     *)
(* query, and the last drone of the chain may crash.  A fragment the last  *)
(* handler put on a channel travels along its hops: it reaches the server  *)
(* and the Ack comes back (DeliveryAck), or a drone on the way drops it or *)
(* finds its next hop gone and the Nack comes back (DeliveryNack); the     *)
(* node handles what comes back.  The network is fair: fragments that can  *)
(* reach the server again and again are not dropped every time; the drops  *)
(* of one pending fragment are at most MaxCounter.                         *)
(***************************************************************************)
DeliveryLinks ==
    [n \in NetNodes |->
        { m \in NetNodes : m = n + 1 \/ n = m + 1 } \cup
        (IF n = 2 THEN { Server } ELSE IF n = Server THEN { 2 } ELSE {})]

DeliveryPaths == { << Self, 2, Server >>, [i \in NetNodes |-> i] }

LastDrone == MaxNode - 1

\* the hops of h up to position i are linked one to the next
Linked(h, i) == \A j \in 1..(i - 1) : h[j + 1] \in net.links[h[j]]

\* the fragments of the last handler that are on their way
InFlight ==
    { m.packet : m \in { x \in SentKind("MsgFragment") :
                           x.packet.hop_index = 1 /\ Len(x.packet.hops) >= 2 } }

\* the Nacks a drone at position i of the hops of p may send back
NacksFrom(p, i) ==
    LET back == Reverse(SubSeq(p.hops, 1, i))
    IN  { Nack(back, i - 1, p.session_id, p.fragment_index, "Dropped", 0) }
        \cup (IF p.hops[i + 1] \notin net.links[p.hops[i]]
              THEN { Nack(back, i - 1, p.session_id, p.fragment_index,
                          "ErrorInRouting", p.hops[i + 1]) }
              ELSE {})

DeliveryHandle(packet, order) ==
    Step(IF variant = "handle_packet" THEN hp_handle_packet(State, packet, order)
         ELSE handle_packet(State, packet, order, 0), Received(packet))

DeliveryInit ==
    /\ \E source \in { "chat_client.rs", "handle_packet" } : NewFields({2}, source)
    /\ NewCache /\ NewTopology
    /\ net = NewNetwork(DeliveryLinks)

DeliveryLearn ==
    \E path \in DeliveryPaths :
        /\ InFlight = {}
        /\ Linked(path, Len(path))
        /\ DeliveryHandle(FloodResponse(Reverse(path), Len(path) - 1, 0, 0, Trace(path)),
                          Ascending(MaxNode))
        /\ UNCHANGED untracked

DeliveryStart ==
    \E order \in IterOrders(MaxNode) :
        /\ ~running
        /\ Step(IF variant = "handle_packet" THEN start_chat_client(State, order)
                ELSE handle_command(State, Command("StartChatClient", 0), order),
                Command("StartChatClient", 0))
        /\ UNCHANGED untracked

DeliveryCrash ==
    /\ net.links[LastDrone] # {}
    /\ net' = [net EXCEPT !.links = [n \in NetNodes |->
                                       IF n = LastDrone THEN {} ELSE @[n] \ { LastDrone }]]
    /\ UNCHANGED notNet

DeliveryAck ==
    \E p \in InFlight : \E order \in IterOrders(MaxNode) :
        /\ Linked(p.hops, Len(p.hops))
        /\ DeliveryHandle(Ack(Reverse(p.hops), Len(p.hops) - 1, p.session_id, p.fragment_index),
                          order)
        /\ UNCHANGED untracked

DeliveryNack ==
    \E p \in InFlight : \E i \in 2..(Len(p.hops) - 1) :
      \E nack \in NacksFrom(p, i), order \in IterOrders(MaxNode) :
        /\ Linked(p.hops, i)
        /\ WithinCounter(nack)
        /\ DeliveryHandle(nack, order)
        /\ UNCHANGED untracked

DeliveryNext ==
    \/ DeliveryLearn
    \/ DeliveryStart
    \/ DeliveryCrash
    \/ DeliveryAck
    \/ DeliveryNack

SpecDelivery == DeliveryInit /\ [][DeliveryNext]_vars /\ SF_vars(DeliveryAck)

(***************************************************************************)
(* C34: in a fair network that keeps a path from the node to the server    *)
(* and answers every fragment that cannot reach the server with a Nack,    *)
(* every fragment in the pending cache is eventually out of it: none stays *)
(* pending for ever.                                                       *)
(***************************************************************************)
\* a fragment is on its way along hops that do not reach the server
Stalled == \E p \in InFlight : ~Linked(p.hops, Len(p.hops))

C34_EventuallyAcked ==
    ([]<>~Stalled)
    => \A k \in CacheKeys : (k \in DOMAIN packet_cache) ~> (k \notin DOMAIN packet_cache)

(***************************************************************************)
(* C35: every MsgFragment of this node that a handler has put on a         *)
(* neighbour's channel has an entry in the pending cache when the handler  *)
(* ends, and an entry leaves the cache only in the handler of the Ack of   *)
(* its key: a fragment that was sent and not acknowledged is pending.      *)
(***************************************************************************)
\* the packet names this node as the first of its hops
Originated(p) == p.hops # << >> /\ p.hops[1] = Self

C35_SentStaysPending ==
    [][ ~panicked' =>
          /\ \A i \in DOMAIN sent' :
                (sent'[i].packet.pack_type = "MsgFragment" /\ Originated(sent'[i].packet))
                => KeyOf(sent'[i].packet) \in DOMAIN packet_cache'
          /\ \A k \in DOMAIN packet_cache :
                k \notin DOMAIN packet_cache'
                => /\ last'.kind = "packet"
                   /\ last'.packet.pack_type = "Ack"
                   /\ ForSelf(last'.packet)
                   /\ KeyOf(last'.packet) = k ]_vars

(***************************************************************************)
(* SpecClient: the node of chat_client/handle_command and                  *)
(* chat_client/handle_packet under the commands of the controller.  It     *)
(* starts with drone 2 as its neighbour; the controller adds and removes   *)
(* the senders of nodes 2 and 3, the receiver of drone 2 can be dropped,   *)
(* and the messages of the servers arrive fragment by fragment.            *)
(***************************************************************************)
ClientSenders == { 2, 3 }
ClientIds == { 3, 5 }
ClientServers == { Server, 3 }

ClientMessages ==
    { Message(0, Server, Self, TRUE, "ServerType", << Chat >>),
      Message(1, Server, Self, TRUE, "ClientList", << 3 >>),
      Message(1, Server, Self, TRUE, "SuccessfulRegistration", << >>),
      Message(0, Server, 3, TRUE, "SuccessfulRegistration", << >>),
      Message(0, Server, Self, TRUE, "SuccessfullLogOut", << >>),
      Message(1, 3, Self, FALSE, "SuccessfullLogOut", << >>) }

ClientPackets ==
    { FloodResponse(<< Server, 2, Self >>, 2, 0, 0, Trace(<< Self, 2, Server >>)) }
    \cup UNION { LET frags == fragment_message(m, << m.source_id, 2, Self >>, 2)
                 IN  { frags[i] : i \in DOMAIN frags } : m \in ClientMessages }

ClientCommands ==
    { Command("AddSender", n) : n \in ClientSenders }
    \cup { Command("RemoveSender", n) : n \in ClientSenders }
    \cup { Command("SendMessageTo", c) : c \in ClientIds }
    \cup { Command("RegisterTo", s) : s \in ClientServers }
    \cup { Command(name, 0) : name \in { "InitFlooding", "StartChatClient" } }

ClientInit == NewNode({2}, "handle_packet") /\ NewCache /\ NewTopology

ClientCommand ==
    \E command \in ClientCommands :
        /\ command.name = "InitFlooding" => flood_id_counter < MaxSession
        /\ Step(hp_handle_command(State, command, Ascending(MaxNode)), command)
        /\ UNCHANGED untracked

ClientRecv ==
    \E packet \in ClientPackets :
        /\ Step(hp_handle_packet(State, packet, Ascending(MaxNode)), Received(packet))
        /\ UNCHANGED untracked

ClientNext ==
    \/ ClientCommand
    \/ ClientRecv
    \/ ReceiverDropped

SpecClient == ClientInit /\ [][ClientNext]_vars

(***************************************************************************)
(* C38: the set of neighbours in packet_send changes only in the handler   *)
(* of AddSender or RemoveSender.  AddSender(n) for a present n keeps the   *)
(* sender n has (a dropped receiver stays dropped) and changes nothing;    *)
(* for an absent n it puts a live sender in.  RemoveSender(n) for an       *)
(* absent n changes nothing, for a present n it takes n out.  Every packet *)
(* a handler puts on a channel goes to a node that is in packet_send, so   *)
(* none goes to n between RemoveSender(n) and the next AddSender(n).       *)
(***************************************************************************)
ClientFields ==
    << packet_send, flood_id_received, flood_id_counter, session_id_counter, running,
       registered, client_list, communication_server_list, fragment_buffer,
       message_buffer, nodes, packet_cache >>

C38_NeighboursByCommand ==
    [][ /\ DOMAIN packet_send' # DOMAIN packet_send
           => /\ last'.kind = "command"
              /\ last'.name \in { "AddSender", "RemoveSender" }
        /\ (last'.kind = "command" /\ last'.name = "AddSender")
           => IF last'.node \in DOMAIN packet_send
              THEN ClientFields' = ClientFields
              ELSE packet_send' = [n \in DOMAIN packet_send \cup { last'.node } |->
                                     IF n = last'.node THEN TRUE ELSE packet_send[n]]
        /\ (last'.kind = "command" /\ last'.name = "RemoveSender")
           => IF last'.node \in DOMAIN packet_send
              THEN packet_send' = [n \in DOMAIN packet_send \ { last'.node } |-> packet_send[n]]
              ELSE ClientFields' = ClientFields
        /\ (last'.kind = "command" /\ last'.name \in { "AddSender", "RemoveSender" })
           => sent' = << >> /\ events' = << >>
        /\ \A i \in DOMAIN sent' : sent'[i].to \in DOMAIN packet_send' ]_vars

\* a handler has sent packets while the sender of drone 2, removed after its
\* receiver had been dropped, is not back, and node 3 has been added
C38_Witness ==
    /\ sent # << >>
    /\ DOMAIN packet_send = { 3 }
    /\ \A i \in DOMAIN sent : sent[i].to = 3

(***************************************************************************)
(* C39: registered becomes Some(s) only in a handler that reassembles a    *)
(* SuccessfulRegistration of server s addressed to this node, and None     *)
(* only in one that reassembles a SuccessfullLogOut of a server addressed  *)
(* to this node.  A reassembled message addressed to another node leaves   *)
(* registered, the two lists, running and the graph as they were and       *)
(* raises no event (the controller gets at most the Ack that found no      *)
(* channel).  message_buffer is empty when a handler has ended.            *)
(***************************************************************************)
Assembled(tag) ==
    { assembled[i] : i \in { j \in DOMAIN assembled :
                               /\ assembled[j].tag = tag
                               /\ assembled[j].from_server
                               /\ assembled[j].destination_id = Self } }

C39_RegisteredByServer ==
    /\ [](message_buffer = << >>)
    /\ [][ /\ registered' # registered
              => IF IsSome(registered')
                 THEN \E m \in Assembled("SuccessfulRegistration")' :
                         m.source_id = Unwrap(registered')
                 ELSE Assembled("SuccessfullLogOut")' # {}
           /\ \A i \in DOMAIN assembled' :
                 assembled'[i].destination_id # Self
                 => /\ UNCHANGED << registered, client_list, communication_server_list,
                                    running, nodes, message_buffer >>
                    /\ \A j \in DOMAIN events' :
                          events'[j].event = "ControllerShortcut" ]_vars

\* the registration addressed to node 3 has been reassembled by a node that
\* is not registered
C39_Witness ==
    /\ \E i \in DOMAIN assembled :
          /\ assembled[i].tag = "SuccessfulRegistration"
          /\ assembled[i].destination_id = 3
    /\ registered = None
    /\ events = << >>

(***************************************************************************)
(* C40: SendMessageTo(c, text) handled by a running, registered node sends *)
(* fragments only when c is in client_list; when it is not, the handler    *)
(* sends no packet, creates no cache entry and raises exactly one event,   *)
(* UnreachableClient(c).  RegisterTo(s) sends only when s is in            *)
(* communication_server_list.                                              *)
(***************************************************************************)
C40_SendOnlyToKnown ==
    [][ /\ ( last'.kind = "command" /\ last'.name = "SendMessageTo"
               /\ running /\ IsSome(registered) )
           => IF Contains(client_list, last'.node)
              THEN \A j \in DOMAIN events' : events'[j].event # "Unreachable"
              ELSE /\ sent' = << >>
                   /\ packet_cache' = packet_cache
                   /\ events' = << Event("Unreachable", NoPacket, last'.node) >>
        /\ ( last'.kind = "command" /\ last'.name = "RegisterTo"
               /\ ~Contains(communication_server_list, last'.node) )
           => sent' = << >> /\ packet_cache' = packet_cache ]_vars

\* the node, running, registered and with client 3 in its list, has refused
\* a message for client 5
C40_Witness ==
    /\ last.kind = "command" /\ last.name = "SendMessageTo" /\ last.node = 5
    /\ running /\ IsSome(registered)
    /\ Contains(client_list, 3)
    /\ events = << Event("Unreachable", NoPacket, 5) >>
    /\ sent = << >>

\* ... and it has sent the fragments of a message for client 3
C40_Sent ==
    /\ last.kind = "command" /\ last.name = "SendMessageTo" /\ last.node = 3
    /\ Len(sent) = 2

====
